---- MODULE Spec2Model ----
(***************************************************************************)
(* Wallet coordination of keep-core (pkg/tbtc/coordination.go): the        *)
(* coordination window, the window watcher, the per-wallet coordination    *)
(* executor (seed, leader election, leader/follower branch, result).       *)
(*                                                                         *)
(* Conventions.                                                            *)
(*  - chain.Address values are modelled by positive integers; the integer  *)
(*    order stands for the lexicographic order of the address strings.     *)
(*  - a uint64 is modelled by the integer representative of its value      *)
(*    modulo 2^64 that lies closest to zero, so 0 - 32 is kept as -32 and  *)
(*    reads as 2^64 - 32 (see U64Sub, U64Less).                            *)
(*  - crypto/sha256 and math/rand are standard-library code; they are      *)
(*    modelled by small deterministic stand-ins with the same interface    *)
(*    (an order-sensitive digest of 32 bytes; a seeded generator).         *)
(***************************************************************************)
EXTENDS Integers, Sequences, FiniteSets, TLC

\* ------------------------------------------------------------ constants

coordinationFrequencyBlocks == 900
coordinationActivePhaseDurationBlocks == 80
coordinationPassivePhaseDurationBlocks == 20
coordinationDurationBlocks ==
    coordinationActivePhaseDurationBlocks + coordinationPassivePhaseDurationBlocks
coordinationSafeBlockShift == 32

\* Length of a wallet public key hash ([20]byte) and of a digest ([32]byte).
PublicKeyHashLen == 20
DigestLen == 32

\* Number of seed bytes that initialise the generator (seed[:8]).
SeedPrefixLen == 8

\* ------------------------------------------------------------ bounds

\* Operators (addresses 1..NumOperators) that may hold seats of a wallet.
NumOperators == 3
\* Largest number of seats of a signing group explored by the election checks.
MaxSeats == 3
\* Number of distinct seeds the election checks draw from.
NumSeeds == 3
\* Number of blocks the block source offers to the watcher.
MaxBlocks == 4
\* Largest multiple of the coordination frequency the block source offers.
MaxBlockIndex == 2
\* Number of coordinate() calls made on the executor.
MaxCalls == 2
\* Number of messages delivered to a follower routine before its deadline.
MaxMessages == 2
\* Largest window index the checklist evaluations are made for.
MaxWindowIndex == 32
\* Largest attempt counter the start block of an attempt is computed for.
MaxAttemptCounter == 100
\* Number of attempts one run of the DKG retry loop makes at most.
MaxAttempts == 7
\* Longest message list handed to deduplicateBySender.
MaxListLen == 4

Operators == 1..NumOperators

\* ------------------------------------------------------------ helpers

Range(s) == {s[i] : i \in DOMAIN s}

Min(S) == CHOOSE x \in S : \A y \in S : x <= y

\* All sequences over S of length lo..hi.
SeqsOf(S, lo, hi) == UNION {[1..n -> S] : n \in lo..hi}

\* All orders in which the elements of the finite set S can be listed.
Orderings(S) ==
    {s \in [1..Cardinality(S) -> S] : \A i, j \in 1..Cardinality(S) : s[i] = s[j] => i = j}

\* uint64 subtraction and comparison on representatives (see the header).
U64Sub(a, b) == a - b

U64Less(a, b) ==
    IF (a < 0) = (b < 0) THEN a < b ELSE b < 0

\* ------------------------------------------------------------ digest

\* Stand-in for sha256.Sum256: a polynomial hash of the input bytes (computed
\* by halving the input), spread over DigestLen bytes. Deterministic and
\* sensitive to every byte and to the order of the bytes.
RECURSIVE PowMod(_, _, _)
PowMod(b, n, m) ==
    IF n = 0 THEN 1
    ELSE LET h == PowMod(b, n \div 2, m)
         IN  (((h * h) % m) * (IF n % 2 = 1 THEN b ELSE 1)) % m

RECURSIVE FoldBytes(_, _, _)
FoldBytes(bytes, lo, hi) ==
    IF lo > hi THEN 7
    ELSE IF lo = hi THEN bytes[lo] + 1
    ELSE LET mid == (lo + hi) \div 2
         IN  (FoldBytes(bytes, lo, mid) * PowMod(31, hi - mid, 32749)
              + FoldBytes(bytes, mid + 1, hi)) % 32749

Sum256(bytes) ==
    LET h == FoldBytes(bytes, 1, Len(bytes))
    IN  [i \in 1..DigestLen |-> ((h \div (1 + (i % 7))) + i * (h % 251)) % 256]

\* ------------------------------------------------------------ generator

\* Stand-in for rand.NewSource(int64(binary.BigEndian.Uint64(seed[:8]))):
\* the big-endian value of the first eight bytes, reduced to the state space
\* of the generator; a zero state is replaced as rngSource.Seed does.
RECURSIVE BigEndianMod(_, _, _, _)
BigEndianMod(bytes, n, m, acc) ==
    IF n = 0 THEN acc
    ELSE BigEndianMod(Tail(bytes), n - 1, m, (acc * 256 + Head(bytes)) % m)

NewSource(seed) ==
    LET x == BigEndianMod(seed, SeedPrefixLen, 65521, 0)
    IN  IF x = 0 THEN 8948 ELSE x

\* One step of the generator and the draw of an integer in [0, n).
RngNext(x) == (x * 75 + 74) % 65537

Int31n(x, n) == RngNext(x) % n

\* rand.Shuffle(n, swap): for i := n-1; i > 0; i-- { j := int31n(i+1); swap(i, j) }
\* (indexes are 0-based in the code and 1-based here).
Swap(s, i, j) == [s EXCEPT ![i] = s[j], ![j] = s[i]]

RECURSIVE Shuffle(_, _, _)
Shuffle(s, i, x) ==
    IF i <= 1 THEN s
    ELSE Shuffle(Swap(s, i, Int31n(x, i) + 1), i - 1, RngNext(x))

\* sort.Slice(uniqueOperators, less) with less(i, j) = uniqueOperators[i] <
\* uniqueOperators[j]: insertion of each element into an ascending list.
RECURSIVE Insert(_, _)
Insert(sorted, x) ==
    IF sorted = <<>> THEN <<x>>
    ELSE IF x < Head(sorted) THEN <<x>> \o sorted
    ELSE <<Head(sorted)>> \o Insert(Tail(sorted), x)

RECURSIVE SortAscending(_)
SortAscending(s) ==
    IF s = <<>> THEN <<>> ELSE Insert(SortAscending(Tail(s)), Head(s))

\* chain.Addresses.Set(): the set of the distinct operators of the list.
AddressSet(operators) == Range(operators)

\* ------------------------------------------------------------ state

VARIABLES
    \* --- leader election by two executors of the same wallet
    elOperatorsA,    \* signingGroupOperators as the first executor holds them
    elOperatorsB,    \* signingGroupOperators as the second executor holds them
    elSeed,          \* the coordination seed both use
    elLeaderA,       \* leader computed by the first executor (0: not yet)
    elLeaderB,       \* leader computed by the second executor (0: not yet)
    elNodeA,         \* operatorAddress of the first executor (0: not yet)
    elNodeB,         \* operatorAddress of the second executor (0: not yet)
    \* --- window watcher
    blocksChan,      \* <<b>>: block b is offered on the block channel; <<>>: none
    produced,        \* blocks the block source has offered so far, in order
    delivered,       \* blocks the watcher has taken from the channel, in order
    lastWindow,      \* watcher's lastWindow: <<>> is nil, <<w>> points to window w
    dispatched,      \* windows for which "go onWindowFn(window)" ran, in order
    started,         \* callback goroutines that have started: indexes of dispatched, in order
    finished,        \* callback goroutines whose onWindowFn has returned: indexes of dispatched
    ctxDone,         \* the watcher's context is cancelled
    watcherReturned, \* watchCoordinationWindows has returned
    \* --- coordination executor of one wallet and the coordinate() calls on it
    ceOperators,     \* coordinatedWallet.signingGroupOperators
    ceNode,          \* operatorAddress
    ceWalletKey,     \* coordinatedWallet.publicKey (an identifier of the key)
    lockCur,         \* lock (semaphore.Weighted): the weight currently acquired
    latch,           \* protocolLatch: number of Lock() calls not yet unlocked
    calls,           \* the coordinate() calls: position, argument, locals, return
    overlap,         \* pairs {j, k} of calls that were both running at some time
    received,        \* messages handled by the follower routine under study, in order
    \* --- evaluations of the pure functions (window methods, actionsChecklist)
    fnIn,            \* the arguments: a record, <<>> when no evaluation is set up
    fnOut,           \* the values returned so far: a record of <<>> (not yet) or <<value>>
    \* --- DKG (node.joinDKGIfEligible, dkgRetryLoop)
    drl,             \* the dkgRetryLoop struct, <<>> when none is built
    loop,            \* the running start(): its locals, position and return values
    join             \* one joinDKGIfEligible call: its inputs and what it did

elVars == <<elOperatorsA, elOperatorsB, elSeed, elLeaderA, elLeaderB, elNodeA, elNodeB>>

watchVars ==
    <<blocksChan, produced, delivered, lastWindow, dispatched, started, finished,
      ctxDone, watcherReturned>>

ceVars == <<ceOperators, ceNode, ceWalletKey, lockCur, latch, calls, overlap, received>>

fnVars == <<fnIn, fnOut>>

dkgVars == <<drl, loop, join>>

vars == <<elVars, watchVars, ceVars, fnVars, dkgVars>>

\* ------------------------------------------------------------ window

\* newCoordinationWindow(coordinationBlock)
newCoordinationWindow(coordinationBlock) == [coordinationBlock |-> coordinationBlock]

activePhaseEndBlock(cw) == cw.coordinationBlock + coordinationActivePhaseDurationBlocks

\* endBlock() that leaves the passive phase out.
endBlockActiveOnly(cw) == cw.coordinationBlock + coordinationActivePhaseDurationBlocks

endBlock(cw) == cw.coordinationBlock + coordinationDurationBlocks

\* isAfter with ">=" in place of ">": a window equal to the last one counts as
\* a new window.
isAfterOrEqual(cw, other) ==
    IF other = <<>> THEN TRUE
    ELSE ~U64Less(cw.coordinationBlock, other[1].coordinationBlock)

\* cw.isAfter(other); other is a pointer: <<>> is nil.
isAfter(cw, other) ==
    IF other = <<>> THEN TRUE
    ELSE U64Less(other[1].coordinationBlock, cw.coordinationBlock)

\* ------------------------------------------------------------ executor

\* wallet.membersByOperator / the membersIndexes an executor is built with:
\* the seats (1-based) of the signing group the operator controls.
MembersByOperator(operators, operator) ==
    {i \in DOMAIN operators : operators[i] = operator}

\* A coordinationExecutor as far as the election reads or could read it.
Executor(operators, node) ==
    [signingGroupOperators |-> operators,
     operatorAddress       |-> node,
     membersIndexes        |-> MembersByOperator(operators, node)]

\* coordinationLeader returning the position drawn by the shuffle instead of
\* the operator at that position.
coordinationLeaderPosition(ce, seed, mapOrder) ==
    LET positions == [i \in 1..Len(mapOrder) |-> i]
        shuffled  == Shuffle(positions, Len(positions), NewSource(seed))
    IN  shuffled[1]

\* coordinationLeader without the sort of the unique operators: the shuffle
\* starts from the order the map iteration produced.
coordinationLeaderUnsorted(ce, seed, mapOrder) ==
    LET uniqueOperators == mapOrder
        shuffled        == Shuffle(uniqueOperators, Len(uniqueOperators), NewSource(seed))
    IN  shuffled[1]

\* coordinationLeader(seed). mapOrder is the order in which the iteration over
\* allOperators.Set() yields the operators (Go leaves it unspecified).
coordinationLeader(ce, seed, mapOrder) ==
    LET uniqueOperators == mapOrder
        sorted          == SortAscending(uniqueOperators)
        shuffled        == Shuffle(sorted, Len(sorted), NewSource(seed))
    IN  shuffled[1]

MapOrders(ce) == Orderings(AddressSet(ce.signingGroupOperators))

\* ------------------------------------------------------------ election runs

Seeds == {Sum256(<<i>>) : i \in 1..NumSeeds}

OperatorLists == SeqsOf(Operators, 1, MaxSeats)

CeIdle ==
    /\ ceOperators = <<>>
    /\ ceNode = 0
    /\ ceWalletKey = 0
    /\ lockCur = 0
    /\ latch = 0
    /\ calls = <<>>
    /\ overlap = {}
    /\ received = <<>>

ElIdle ==
    /\ elOperatorsA = <<>>
    /\ elOperatorsB = <<>>
    /\ elSeed = <<>>
    /\ elLeaderA = 0
    /\ elLeaderB = 0
    /\ elNodeA = 0
    /\ elNodeB = 0

WatchIdle ==
    /\ blocksChan = <<>>
    /\ produced = <<>>
    /\ delivered = <<>>
    /\ lastWindow = <<>>
    /\ dispatched = <<>>
    /\ started = <<>>
    /\ finished = {}
    /\ ctxDone = FALSE
    /\ watcherReturned = FALSE

FnIdle ==
    /\ fnIn = <<>>
    /\ fnOut = <<>>

DkgIdle ==
    /\ drl = <<>>
    /\ loop = <<>>
    /\ join = <<>>

ElInit ==
    /\ WatchIdle
    /\ CeIdle
    /\ FnIdle
    /\ DkgIdle
    /\ elOperatorsA \in OperatorLists
    /\ elOperatorsB \in {l \in OperatorLists : AddressSet(l) = AddressSet(elOperatorsA)}
    /\ elSeed \in Seeds
    /\ elLeaderA = 0
    /\ elLeaderB = 0
    /\ elNodeA = 0
    /\ elNodeB = 0

ElectA ==
    /\ elLeaderA = 0
    /\ \E node \in Operators :
         LET ce == Executor(elOperatorsA, node)
         IN  \E mapOrder \in MapOrders(ce) :
               /\ elLeaderA' = coordinationLeader(ce, elSeed, mapOrder)
               /\ elNodeA' = node
    /\ UNCHANGED <<elOperatorsA, elOperatorsB, elSeed, elLeaderB, elNodeB>>
    /\ UNCHANGED <<fnVars, dkgVars, watchVars, ceVars>>

ElectB ==
    /\ elLeaderB = 0
    /\ \E node \in Operators :
         LET ce == Executor(elOperatorsB, node)
         IN  \E mapOrder \in MapOrders(ce) :
               /\ elLeaderB' = coordinationLeader(ce, elSeed, mapOrder)
               /\ elNodeB' = node
    /\ UNCHANGED <<elOperatorsA, elOperatorsB, elSeed, elLeaderA, elNodeA>>
    /\ UNCHANGED <<fnVars, dkgVars, watchVars, ceVars>>

ElNext == ElectA \/ ElectB

SpecLeader == ElInit /\ [][ElNext]_vars

\* ------------------------------------------------------------ watcher

\* Blocks the block source may offer: around each multiple of the coordination
\* frequency up to MaxBlockIndex, block 0 included.
BlockValues ==
    {k * coordinationFrequencyBlocks + d : k \in 0..MaxBlockIndex, d \in {0, 1}}

\* The goroutine behind watchBlocksFn offers the next block on blocksChan
\* (an unbuffered channel: one block is offered at a time).
ProduceBlock(b) ==
    /\ blocksChan = <<>>
    /\ Len(produced) < MaxBlocks
    /\ blocksChan' = <<b>>
    /\ produced' = Append(produced, b)
    /\ UNCHANGED <<delivered, lastWindow, dispatched, started, finished, ctxDone,
                   watcherReturned>>
    /\ UNCHANGED <<fnVars, dkgVars, elVars, ceVars>>

\* Goroutines spawned by "go onWindowFn(window)" that have not started yet, and
\* those that are inside the callback.
NotStarted == DOMAIN dispatched \ Range(started)

CallbackRunning == Range(started) \ finished

\* The loop iteration with "onWindowFn(window)" called in place, without "go":
\* the loop takes the next block only once the callback has returned.
WatcherReceiveInline ==
    /\ ~watcherReturned
    /\ blocksChan # <<>>
    /\ NotStarted = {}
    /\ CallbackRunning = {}
    /\ LET block  == blocksChan[1]
           window == newCoordinationWindow(block)
       IN  /\ blocksChan' = <<>>
           /\ delivered' = Append(delivered, block)
           /\ IF block % coordinationFrequencyBlocks = 0 /\ isAfter(window, lastWindow)
              THEN /\ lastWindow' = <<window>>
                   /\ dispatched' = Append(dispatched, window)
              ELSE UNCHANGED <<lastWindow, dispatched>>
    /\ UNCHANGED <<produced, started, finished, ctxDone, watcherReturned>>
    /\ UNCHANGED <<fnVars, dkgVars, elVars, ceVars>>

\* One iteration of the watcher's loop taking "case block := <-blocksChan".
WatcherReceive ==
    /\ ~watcherReturned
    /\ blocksChan # <<>>
    /\ LET block  == blocksChan[1]
           window == newCoordinationWindow(block)
       IN  /\ blocksChan' = <<>>
           /\ delivered' = Append(delivered, block)
           /\ IF block % coordinationFrequencyBlocks = 0 /\ isAfter(window, lastWindow)
              THEN /\ lastWindow' = <<window>>
                   /\ dispatched' = Append(dispatched, window)
              ELSE UNCHANGED <<lastWindow, dispatched>>
    /\ UNCHANGED <<produced, started, finished, ctxDone, watcherReturned>>
    /\ UNCHANGED <<fnVars, dkgVars, elVars, ceVars>>

\* The caller cancels the context passed to the watcher.
CancelWatch ==
    /\ ~ctxDone
    /\ ctxDone' = TRUE
    /\ UNCHANGED <<blocksChan, produced, delivered, lastWindow, dispatched, started,
                   finished, watcherReturned>>
    /\ UNCHANGED <<fnVars, dkgVars, elVars, ceVars>>

\* One iteration of the watcher's loop taking "case <-ctx.Done(): return".
WatcherReturn ==
    /\ ~watcherReturned
    /\ ctxDone
    /\ watcherReturned' = TRUE
    /\ UNCHANGED <<blocksChan, produced, delivered, lastWindow, dispatched, started,
                   finished, ctxDone>>
    /\ UNCHANGED <<fnVars, dkgVars, elVars, ceVars>>

\* A goroutine spawned by "go onWindowFn(window)" starts running the callback.
CallbackStart(i) ==
    /\ i \in NotStarted
    /\ started' = Append(started, i)
    /\ UNCHANGED <<blocksChan, produced, delivered, lastWindow, dispatched, finished,
                   ctxDone, watcherReturned>>
    /\ UNCHANGED <<fnVars, dkgVars, elVars, ceVars>>

\* A running callback returns (a callback may also never return).
CallbackReturn(i) ==
    /\ i \in CallbackRunning
    /\ finished' = finished \cup {i}
    /\ UNCHANGED <<blocksChan, produced, delivered, lastWindow, dispatched, started,
                   ctxDone, watcherReturned>>
    /\ UNCHANGED <<fnVars, dkgVars, elVars, ceVars>>

WatchInit ==
    /\ ElIdle
    /\ CeIdle
    /\ FnIdle
    /\ DkgIdle
    /\ WatchIdle

WatchNext ==
    \/ \E b \in BlockValues : ProduceBlock(b)
    \/ WatcherReceive
    \/ CancelWatch
    \/ WatcherReturn
    \/ \E i \in 1..MaxBlocks : CallbackStart(i)
    \/ \E i \in 1..MaxBlocks : CallbackReturn(i)

SpecWatch == WatchInit /\ [][WatchNext]_vars

\* ------------------------------------------------------------ coordination

\* coordinationWindow.index(): the window's index, 0 for an invalid window.
\* index() dividing without the multiple-of-frequency test.
indexTruncating(cw) == cw.coordinationBlock \div coordinationFrequencyBlocks

index(cw) ==
    IF cw.coordinationBlock % coordinationFrequencyBlocks = 0
    THEN cw.coordinationBlock \div coordinationFrequencyBlocks
    ELSE 0

\* actionsChecklist(windowIndex, seed)
HeartbeatModulus == 8
HeartbeatRemainder == 0
FullWindowPeriod == 16

\* A checklist that lets the heartbeat draw apply to the full windows too.
actionsChecklistHeartbeatInFull(windowIndex, seed) ==
    LET heartbeat == IF BigEndianMod(seed, SeedPrefixLen, HeartbeatModulus, 0) = HeartbeatRemainder
                     THEN <<"Heartbeat">> ELSE <<>>
    IN  IF windowIndex = 0 THEN <<>>
        ELSE IF windowIndex % FullWindowPeriod = 0
             THEN <<"Redemption", "DepositSweep", "MovedFundsSweep", "MovingFunds">> \o heartbeat
        ELSE <<"Redemption">> \o heartbeat

\* A checklist whose heartbeat draw mixes the window index into the seed.
actionsChecklistIndexMixed(windowIndex, seed) ==
    IF windowIndex = 0 THEN <<>>
    ELSE IF windowIndex % FullWindowPeriod = 0
         THEN <<"Redemption", "DepositSweep", "MovedFundsSweep", "MovingFunds">>
    ELSE IF (BigEndianMod(seed, SeedPrefixLen, HeartbeatModulus, 0) + windowIndex)
                % HeartbeatModulus = HeartbeatRemainder
         THEN <<"Redemption", "Heartbeat">>
    ELSE <<"Redemption">>

actionsChecklist(windowIndex, seed) ==
    IF windowIndex = 0 THEN <<>>
    ELSE IF windowIndex % FullWindowPeriod = 0
         THEN <<"Redemption", "DepositSweep", "MovedFundsSweep", "MovingFunds">>
    ELSE IF BigEndianMod(seed, SeedPrefixLen, HeartbeatModulus, 0) = HeartbeatRemainder
         THEN <<"Redemption", "Heartbeat">>
    ELSE <<"Redemption">>

\* Proposals: the action type and the action's parameters (one number here).
noopProposal == [actionType |-> "Noop", payload |-> 0]

ProposalFor(action) ==
    [actionType |-> action, payload |-> IF action = "Redemption" THEN 10000 ELSE 1]

\* ce.walletPublicKeyHash(): stand-in for bitcoin.PublicKeyHash(publicKey).
walletPublicKeyHash(key) ==
    [i \in 1..PublicKeyHashLen |-> (key * 37 + i * 11) % 256]

\* The chain the executor reads: the hash of block n, for the blocks that exist
\* (a wrapped-around block number names no block).
BlockOnChain(n) == n >= 0

GetBlockHashByNumber(n) ==
    [i \in 1..DigestLen |-> ((n \div 256) + n + i * 13) % 256]

\* safeBlockNumber without the safe block shift: the hash of the coordination
\* block itself is read.
safeBlockNumberUnshifted(cw) == cw.coordinationBlock

\* coordinationSeed(window): the block whose hash is read, and the seed.
safeBlockNumber(cw) == U64Sub(cw.coordinationBlock, coordinationSafeBlockShift)

coordinationSeed(key, safeBlockHash) ==
    Sum256(walletPublicKeyHash(key) \o safeBlockHash)

\* A lock created with weight 2: semaphore.NewWeighted(2).
lockSizeTwo == 1 + 1

\* lock: semaphore.NewWeighted(1) and TryAcquire(n) (no caller ever waits).
lockSize == 1

\* A TryAcquire whose outcome is not looked at: every caller goes on.
TryAcquireIgnored(cur, n) == TRUE

TryAcquire(cur, n) == lockSize - cur >= n

\* A refused call that still runs the deferred Release(1).
LockAfterBusyReleased(cur) == cur - 1

\* The weight of the lock after a call was refused: the refused call returns
\* before "defer ce.lock.Release(1)" is reached.
LockAfterBusy(cur) == cur

\* The executor fields.
ThisExecutor == Executor(ceOperators, ceNode)

\* Positions of a coordinate() call between acquiring the lock and releasing it.
Holding ==
    {"latchLock", "seed", "leader", "leaderRoutine", "followerRoutine", "result",
     "latchUnlock", "lockRelease"}

Running == Holding \cup {"tryAcquire"}

Called == {k \in DOMAIN calls : calls[k].pc # "notCalled"}

NewCall ==
    [pc          |-> "notCalled",
     window      |-> <<>>,     \* the argument
     heldAtTry   |-> 0,        \* call that held the lock when this one tried it
     reads       |-> {},       \* block numbers this call asked the chain for
     seed        |-> <<>>,
     leader      |-> 0,
     checklist   |-> <<>>,
     routine     |-> "none",   \* the routine that ran: "leader" or "follower"
     handled     |-> 0,        \* messages the follower routine has handled
     proposal    |-> <<>>,     \* what the routine returned: <<proposal>>
     faults      |-> <<>>,     \* faults the routine recorded
     sent        |-> <<>>,     \* messages the leader routine broadcast
     result      |-> <<>>,     \* the returned *coordinationResult: <<>> is nil
     err         |-> "none"]   \* the returned error: "none", "busy", "seed"

\* Windows passed to coordinate(): the one of block 0 (which the watcher emits
\* when the block source delivers block 0) and the first regular one.
Windows ==
    {newCoordinationWindow(i * coordinationFrequencyBlocks) : i \in {0, 1}}

\* A goroutine calls coordinate(window).
Call(k, w) ==
    /\ k \in DOMAIN calls
    /\ calls[k].pc = "notCalled"
    /\ \A j \in 1..(k - 1) : calls[j].pc # "notCalled"
    /\ calls' = [calls EXCEPT ![k].pc = "tryAcquire", ![k].window = <<w>>]
    /\ overlap' = overlap \cup {{j, k} : j \in {i \in DOMAIN calls : calls[i].pc \in Running}}
    /\ UNCHANGED <<ceOperators, ceNode, ceWalletKey, lockCur, latch>>
    /\ UNCHANGED <<fnVars, dkgVars, elVars, watchVars, received>>

\* ce.lock.Acquire(ctx, 1) in place of TryAcquire: the caller waits for the
\* lock instead of being refused.
DoAcquireBlocking(k) ==
    /\ k \in DOMAIN calls
    /\ calls[k].pc = "tryAcquire"
    /\ TryAcquire(lockCur, 1)
    /\ lockCur' = lockCur + 1
    /\ calls' = [calls EXCEPT ![k].pc = "latchLock"]
    /\ UNCHANGED <<ceOperators, ceNode, ceWalletKey, latch, overlap>>
    /\ UNCHANGED <<fnVars, dkgVars, elVars, watchVars, received>>

\* if lockAcquired := ce.lock.TryAcquire(1); !lockAcquired { return nil, busy }
DoTryAcquire(k) ==
    /\ k \in DOMAIN calls
    /\ calls[k].pc = "tryAcquire"
    /\ LET holders == {j \in DOMAIN calls : calls[j].pc \in Holding}
           held    == IF holders = {} THEN 0 ELSE Min(holders)
       IN  IF TryAcquire(lockCur, 1)
           THEN /\ lockCur' = lockCur + 1
                /\ calls' = [calls EXCEPT ![k].pc = "latchLock", ![k].heldAtTry = held]
           ELSE /\ lockCur' = LockAfterBusy(lockCur)
                /\ calls' = [calls EXCEPT ![k].pc = "returned", ![k].heldAtTry = held,
                                          ![k].err = "busy"]
    /\ UNCHANGED <<ceOperators, ceNode, ceWalletKey, latch, overlap>>
    /\ UNCHANGED <<fnVars, dkgVars, elVars, watchVars, received>>

\* A coordinate() that goes on without locking the protocol latch.
LatchLockSkipped(k) ==
    /\ k \in DOMAIN calls
    /\ calls[k].pc = "latchLock"
    /\ calls' = [calls EXCEPT ![k].pc = "seed"]
    /\ UNCHANGED <<ceOperators, ceNode, ceWalletKey, lockCur, latch, overlap>>
    /\ UNCHANGED <<fnVars, dkgVars, elVars, watchVars, received>>

\* ce.protocolLatch.Lock()
LatchLock(k) ==
    /\ k \in DOMAIN calls
    /\ calls[k].pc = "latchLock"
    /\ latch' = latch + 1
    /\ calls' = [calls EXCEPT ![k].pc = "seed"]
    /\ UNCHANGED <<ceOperators, ceNode, ceWalletKey, lockCur, overlap>>
    /\ UNCHANGED <<fnVars, dkgVars, elVars, watchVars, received>>

\* A coordinate() that notes the seed error and goes on with the zero seed
\* coordinationSeed returned with it ([32]byte{}).
SeedErrorIgnored(k) ==
    /\ k \in DOMAIN calls
    /\ calls[k].pc = "seed"
    /\ LET n == safeBlockNumber(calls[k].window[1])
       IN  \E readOk \in BOOLEAN :
             IF readOk /\ BlockOnChain(n)
             THEN calls' = [calls EXCEPT
                      ![k].pc = "leader",
                      ![k].reads = @ \cup {n},
                      ![k].seed = coordinationSeed(ceWalletKey, GetBlockHashByNumber(n))]
             ELSE calls' = [calls EXCEPT
                      ![k].pc = "leader",
                      ![k].reads = @ \cup {n},
                      ![k].seed = [i \in 1..DigestLen |-> 0],
                      ![k].err = "seed"]
    /\ UNCHANGED <<ceOperators, ceNode, ceWalletKey, lockCur, latch, overlap>>
    /\ UNCHANGED <<fnVars, dkgVars, elVars, watchVars, received>>

\* seed, err := ce.coordinationSeed(window); the chain read may fail.
Seed(k) ==
    /\ k \in DOMAIN calls
    /\ calls[k].pc = "seed"
    /\ LET n == safeBlockNumber(calls[k].window[1])
       IN  \E readOk \in BOOLEAN :
             IF readOk /\ BlockOnChain(n)
             THEN calls' = [calls EXCEPT
                      ![k].pc = "leader",
                      ![k].reads = @ \cup {n},
                      ![k].seed = coordinationSeed(ceWalletKey, GetBlockHashByNumber(n))]
             ELSE calls' = [calls EXCEPT
                      ![k].pc = "latchUnlock",
                      ![k].reads = @ \cup {n},
                      ![k].err = "seed"]
    /\ UNCHANGED <<ceOperators, ceNode, ceWalletKey, lockCur, latch, overlap>>
    /\ UNCHANGED <<fnVars, dkgVars, elVars, watchVars, received>>

\* A branch that sends every node into the leader routine.
RoutineAlwaysLeader(leader, node) == "leaderRoutine"

\* A branch with the comparison inverted ("leader != ce.operatorAddress").
RoutineOfInverted(leader, node) ==
    IF leader # node THEN "leaderRoutine" ELSE "followerRoutine"

\* if leader == ce.operatorAddress { ce.leaderRoutine() } else { ce.followerRoutine() }
RoutineOf(leader, node) ==
    IF leader = node THEN "leaderRoutine" ELSE "followerRoutine"

\* leader := ce.coordinationLeader(seed), the checklist of the window, and the
\* branch "if leader == ce.operatorAddress".
Leader(k) ==
    /\ k \in DOMAIN calls
    /\ calls[k].pc = "leader"
    /\ \E mapOrder \in MapOrders(ThisExecutor) :
         LET leader == coordinationLeader(ThisExecutor, calls[k].seed, mapOrder)
         IN  calls' = [calls EXCEPT
                 ![k].leader = leader,
                 ![k].checklist = actionsChecklist(index(calls[k].window[1]), calls[k].seed),
                 ![k].pc = RoutineOf(leader, ceNode)]
    /\ UNCHANGED <<ceOperators, ceNode, ceWalletKey, lockCur, latch, overlap>>
    /\ UNCHANGED <<fnVars, dkgVars, elVars, watchVars, received>>

\* ------------------------------------------------------------ routines

\* A coordinationMessage as it arrives: the payload fields and the operator the
\* network layer authenticated as its sender.
CoordinationMessage(senderID, senderOperator, coordinationBlock, keyHash, proposal) ==
    [msgType             |-> "coordination",
     senderID            |-> senderID,
     senderOperator      |-> senderOperator,
     coordinationBlock   |-> coordinationBlock,
     walletPublicKeyHash |-> keyHash,
     proposal            |-> proposal]

\* membershipValidator.IsValidMembership(senderID, senderPublicKey): the seat
\* belongs to the operator that sent the message.
IsValidMembership(operators, m) ==
    /\ m.senderID \in DOMAIN operators
    /\ operators[m.senderID] = m.senderOperator

\* A follower that does not compare the proposed action with the checklist.
FollowerVerdictAnyAction(ce, key, leader, cw, checklist, m) ==
    IF m.msgType # "coordination" THEN "drop"
    ELSE IF m.senderID \in ce.membersIndexes THEN "drop"
    ELSE IF m.senderID \notin DOMAIN ce.signingGroupOperators THEN "drop"
    ELSE IF ce.signingGroupOperators[m.senderID] # m.senderOperator THEN "drop"
    ELSE IF m.coordinationBlock # cw.coordinationBlock THEN "drop"
    ELSE IF m.walletPublicKeyHash # walletPublicKeyHash(key) THEN "drop"
    ELSE IF ce.signingGroupOperators[m.senderID] # leader THEN "impersonation"
    ELSE "accept"

\* A follower that compares the sender with the leader before it looks at the
\* coordination block and the wallet of the message.
FollowerVerdictLeaderFirst(ce, key, leader, cw, checklist, m) ==
    IF m.msgType # "coordination" THEN "drop"
    ELSE IF m.senderID \in ce.membersIndexes THEN "drop"
    ELSE IF m.senderID \notin DOMAIN ce.signingGroupOperators THEN "drop"
    ELSE IF ce.signingGroupOperators[m.senderID] # m.senderOperator THEN "drop"
    ELSE IF ce.signingGroupOperators[m.senderID] # leader THEN "impersonation"
    ELSE IF m.coordinationBlock # cw.coordinationBlock THEN "drop"
    ELSE IF m.walletPublicKeyHash # walletPublicKeyHash(key) THEN "drop"
    ELSE IF m.proposal.actionType \notin Range(checklist) THEN "mistake"
    ELSE "accept"

\* A follower that drops a leader message whose action is off the checklist
\* without recording a fault.
FollowerVerdictMistakeDropped(ce, key, leader, cw, checklist, m) ==
    IF m.msgType # "coordination" THEN "drop"
    ELSE IF m.senderID \in ce.membersIndexes THEN "drop"
    ELSE IF m.senderID \notin DOMAIN ce.signingGroupOperators THEN "drop"
    ELSE IF ce.signingGroupOperators[m.senderID] # m.senderOperator THEN "drop"
    ELSE IF m.coordinationBlock # cw.coordinationBlock THEN "drop"
    ELSE IF m.walletPublicKeyHash # walletPublicKeyHash(key) THEN "drop"
    ELSE IF ce.signingGroupOperators[m.senderID] # leader THEN "impersonation"
    ELSE IF m.proposal.actionType \notin Range(checklist) THEN "drop"
    ELSE "accept"

\* A follower that charges the leader with a mistake for a message of the
\* leader about another wallet.
FollowerVerdictWrongWalletMistake(ce, key, leader, cw, checklist, m) ==
    IF m.msgType # "coordination" THEN "drop"
    ELSE IF m.senderID \in ce.membersIndexes THEN "drop"
    ELSE IF m.senderID \notin DOMAIN ce.signingGroupOperators THEN "drop"
    ELSE IF ce.signingGroupOperators[m.senderID] # m.senderOperator THEN "drop"
    ELSE IF m.coordinationBlock # cw.coordinationBlock THEN "drop"
    ELSE IF ce.signingGroupOperators[m.senderID] # leader
         THEN (IF m.walletPublicKeyHash # walletPublicKeyHash(key)
               THEN "drop" ELSE "impersonation")
    ELSE IF m.walletPublicKeyHash # walletPublicKeyHash(key) THEN "mistake"
    ELSE IF m.proposal.actionType \notin Range(checklist) THEN "mistake"
    ELSE "accept"

\* What the follower routine does with one received message.
FollowerVerdict(ce, key, leader, cw, checklist, m) ==
    IF m.msgType # "coordination" THEN "drop"
    ELSE IF m.senderID \in ce.membersIndexes THEN "drop"
    ELSE IF ~IsValidMembership(ce.signingGroupOperators, m) THEN "drop"
    ELSE IF m.coordinationBlock # cw.coordinationBlock THEN "drop"
    ELSE IF m.walletPublicKeyHash # walletPublicKeyHash(key) THEN "drop"
    ELSE IF ce.signingGroupOperators[m.senderID] # leader THEN "impersonation"
    ELSE IF m.proposal.actionType \notin Range(checklist) THEN "mistake"
    ELSE "accept"

Fault(culprit, faultType) == [culprit |-> culprit, faultType |-> faultType]

\* Messages the group's operators may put on the broadcast channel during a
\* window: the well-formed message of each operator for each proposal, and its
\* variants of another type, for another block, for another wallet, or under a
\* seat of another operator.
MessagePool(operators, cw, key) ==
    LET seat(o) == Min(MembersByOperator(operators, o))
        base(o, action) ==
            CoordinationMessage(seat(o), o, cw.coordinationBlock,
                                walletPublicKeyHash(key), ProposalFor(action))
        wellFormed == {base(o, a) : o \in Range(operators), a \in {"Redemption", "Heartbeat"}}
        redemptions == {base(o, "Redemption") : o \in Range(operators)}
    IN  wellFormed
        \cup {[m EXCEPT !.msgType = "signingDone"] : m \in redemptions}
        \cup {[m EXCEPT !.coordinationBlock = @ + 1] : m \in redemptions}
        \cup {[m EXCEPT !.walletPublicKeyHash = walletPublicKeyHash(key + 1)] : m \in redemptions}
        \cup {[m EXCEPT !.senderID = seat(o)] : m \in redemptions, o \in Range(operators)}

\* followerRoutine: the handler of one received message.
FollowerHandle(k, m) ==
    /\ k \in DOMAIN calls
    /\ calls[k].pc = "followerRoutine"
    /\ calls[k].handled < MaxMessages
    /\ LET c       == calls[k]
           verdict == FollowerVerdict(ThisExecutor, ceWalletKey, c.leader, c.window[1],
                                      c.checklist, m)
       IN  calls' = [calls EXCEPT
               ![k].handled = @ + 1,
               ![k].faults =
                   IF verdict = "impersonation"
                   THEN Append(@, Fault(ceOperators[m.senderID], "LeaderImpersonation"))
                   ELSE IF verdict = "mistake"
                   THEN Append(@, Fault(c.leader, "LeaderMistake"))
                   ELSE @,
               ![k].proposal = IF verdict = "accept" THEN <<m.proposal>> ELSE @,
               ![k].routine = IF verdict = "accept" THEN "follower" ELSE @,
               ![k].pc = IF verdict = "accept" THEN "result" ELSE @]
    /\ UNCHANGED <<ceOperators, ceNode, ceWalletKey, lockCur, latch, overlap>>
    /\ UNCHANGED <<fnVars, dkgVars, elVars, watchVars>>

\* Messages that may reach the follower routine of call k.
FollowerMessages(k) ==
    IF calls[k].pc # "followerRoutine" THEN {}
    ELSE MessagePool(ceOperators, calls[k].window[1], ceWalletKey)

FollowerReceive(k) ==
    /\ \E m \in FollowerMessages(k) : FollowerHandle(k, m)
    /\ UNCHANGED received

\* A follower whose deadline blames itself instead of the leader.
FollowerExpireBlamingSelf(k) ==
    /\ k \in DOMAIN calls
    /\ calls[k].pc = "followerRoutine"
    /\ calls' = [calls EXCEPT
           ![k].faults = Append(@, [culprit |-> ceNode, faultType |-> "LeaderIdleness"]),
           ![k].proposal = <<noopProposal>>,
           ![k].routine = "follower",
           ![k].pc = "result"]
    /\ UNCHANGED <<ceOperators, ceNode, ceWalletKey, lockCur, latch, overlap>>
    /\ UNCHANGED <<fnVars, dkgVars, elVars, watchVars>>

\* followerRoutine: the active phase ends before a message was accepted.
FollowerExpire(k) ==
    /\ k \in DOMAIN calls
    /\ calls[k].pc = "followerRoutine"
    /\ calls' = [calls EXCEPT
           ![k].faults = Append(@, Fault(calls[k].leader, "LeaderIdleness")),
           ![k].proposal = <<noopProposal>>,
           ![k].routine = "follower",
           ![k].pc = "result"]
    /\ UNCHANGED <<ceOperators, ceNode, ceWalletKey, lockCur, latch, overlap>>
    /\ UNCHANGED <<fnVars, dkgVars, elVars, watchVars>>

FollowerDeadline(k) ==
    /\ FollowerExpire(k)
    /\ UNCHANGED received

\* leaderRoutine: ask the proposal generator, broadcast once, return the proposal.
GeneratorOutputs(checklist) ==
    {noopProposal} \cup {ProposalFor(a) : a \in Range(checklist)}

\* A sender taken from the head of membersIndexes as it was handed over.
FirstMemberIndex(membersIndexes) == membersIndexes[1]

\* The sender of the leader's message: the lowest of the node's member
\* indexes, which the executor holds as a list in no particular order.
RECURSIVE LowestMemberIndex(_)
LowestMemberIndex(membersIndexes) ==
    IF Len(membersIndexes) = 1 THEN membersIndexes[1]
    ELSE LET rest == LowestMemberIndex(Tail(membersIndexes))
         IN  IF membersIndexes[1] < rest THEN membersIndexes[1] ELSE rest

LeaderRoutine(k) ==
    /\ k \in DOMAIN calls
    /\ calls[k].pc = "leaderRoutine"
    /\ \E p \in GeneratorOutputs(calls[k].checklist) :
       \E membersIndexes \in Orderings(ThisExecutor.membersIndexes) :
         calls' = [calls EXCEPT
             ![k].sent = Append(@, CoordinationMessage(
                             LowestMemberIndex(membersIndexes), ceNode,
                             calls[k].window[1].coordinationBlock,
                             walletPublicKeyHash(ceWalletKey), p)),
             ![k].proposal = <<p>>,
             ![k].routine = "leader",
             ![k].pc = "result"]
    /\ UNCHANGED <<ceOperators, ceNode, ceWalletKey, lockCur, latch, overlap>>
    /\ UNCHANGED <<fnVars, dkgVars, elVars, watchVars, received>>

\* result := &coordinationResult{...}: what coordinate() builds once the
\* routine has returned. The routine's proposal and faults and the elected
\* leader are at hand (the parameters); the code does not use them.
coordinationResult(key, operators, cw, leader, proposal, faults) ==
    [wallet   |-> key,
     window   |-> cw,
     leader   |-> operators[1],
     proposal |-> noopProposal,
     faults   |-> <<>>]

\* noopProposal.validityBlocks(): it panics, no value is returned (<<>>).
validityBlocks(np) == <<>>

\* A coordinate() that reads the validity blocks of the proposal it returns:
\* the call panics when there are none.
ResultReadingValidity(k) ==
    /\ k \in DOMAIN calls
    /\ calls[k].pc = "result"
    /\ LET result == coordinationResult(ceWalletKey, ceOperators, calls[k].window[1],
                                        calls[k].leader, calls[k].proposal[1],
                                        calls[k].faults)
       IN  IF result.proposal.actionType = "Noop" /\ validityBlocks(result.proposal) = <<>>
           THEN calls' = [calls EXCEPT ![k].pc = "panicked"]
           ELSE calls' = [calls EXCEPT ![k].result = <<result>>, ![k].pc = "latchUnlock"]
    /\ UNCHANGED <<ceOperators, ceNode, ceWalletKey, lockCur, latch, overlap>>
    /\ UNCHANGED <<fnVars, dkgVars, elVars, watchVars, received>>

Result(k) ==
    /\ k \in DOMAIN calls
    /\ calls[k].pc = "result"
    /\ calls' = [calls EXCEPT
           ![k].result = <<coordinationResult(ceWalletKey, ceOperators, calls[k].window[1],
                                              calls[k].leader, calls[k].proposal[1],
                                              calls[k].faults)>>,
           ![k].pc = "latchUnlock"]
    /\ UNCHANGED <<ceOperators, ceNode, ceWalletKey, lockCur, latch, overlap>>
    /\ UNCHANGED <<fnVars, dkgVars, elVars, watchVars, received>>

\* defer ce.protocolLatch.Unlock()
LatchUnlock(k) ==
    /\ k \in DOMAIN calls
    /\ calls[k].pc = "latchUnlock"
    /\ latch' = latch - 1
    /\ calls' = [calls EXCEPT ![k].pc = "lockRelease"]
    /\ UNCHANGED <<ceOperators, ceNode, ceWalletKey, lockCur, overlap>>
    /\ UNCHANGED <<fnVars, dkgVars, elVars, watchVars, received>>

\* A return that leaves the lock acquired (no "defer ce.lock.Release(1)").
LockReleaseSkipped(k) ==
    /\ k \in DOMAIN calls
    /\ calls[k].pc = "lockRelease"
    /\ calls' = [calls EXCEPT
           ![k] = [NewCall EXCEPT !.pc = "returned",
                                  !.window = calls[k].window,
                                  !.heldAtTry = calls[k].heldAtTry,
                                  !.result = calls[k].result,
                                  !.err = calls[k].err]]
    /\ UNCHANGED <<ceOperators, ceNode, ceWalletKey, lockCur, latch, overlap>>
    /\ UNCHANGED <<fnVars, dkgVars, elVars, watchVars, received>>

\* defer ce.lock.Release(1), and the return: the call's locals are gone.
LockRelease(k) ==
    /\ k \in DOMAIN calls
    /\ calls[k].pc = "lockRelease"
    /\ lockCur' = lockCur - 1
    /\ calls' = [calls EXCEPT
           ![k] = [NewCall EXCEPT !.pc = "returned",
                                  !.window = calls[k].window,
                                  !.heldAtTry = calls[k].heldAtTry,
                                  !.result = calls[k].result,
                                  !.err = calls[k].err]]
    /\ UNCHANGED <<ceOperators, ceNode, ceWalletKey, latch, overlap>>
    /\ UNCHANGED <<fnVars, dkgVars, elVars, watchVars, received>>

\* ------------------------------------------------------------ executor runs

\* Signing groups of the coordinated wallet (operators hold several seats).
ExecutorGroups == {<<2, 1, 3, 1>>, <<3, 3, 1>>}

\* Wallet keys: for window 900 the seed of key 1 leaves Heartbeat off the
\* checklist and the seed of key 4 puts it on.
WalletKeys == {1, 4}

Init ==
    /\ ElIdle
    /\ WatchIdle
    /\ FnIdle
    /\ DkgIdle
    /\ ceOperators \in ExecutorGroups
    /\ ceNode \in Range(ceOperators)
    /\ ceWalletKey \in WalletKeys
    /\ lockCur = 0
    /\ latch = 0
    /\ calls = [k \in 1..MaxCalls |-> NewCall]
    /\ overlap = {}
    /\ received = <<>>

Next ==
    \/ \E k \in 1..MaxCalls : \E w \in Windows : Call(k, w)
    \/ \E k \in 1..MaxCalls : DoTryAcquire(k)
    \/ \E k \in 1..MaxCalls : LatchLock(k)
    \/ \E k \in 1..MaxCalls : Seed(k)
    \/ \E k \in 1..MaxCalls : Leader(k)
    \/ \E k \in 1..MaxCalls : LeaderRoutine(k)
    \/ \E k \in 1..MaxCalls : FollowerReceive(k)
    \/ \E k \in 1..MaxCalls : FollowerDeadline(k)
    \/ \E k \in 1..MaxCalls : Result(k)
    \/ \E k \in 1..MaxCalls : LatchUnlock(k)
    \/ \E k \in 1..MaxCalls : LockRelease(k)

Spec == Init /\ [][Next]_vars

\* ------------------------------------------------------------ follower runs

\* One coordinate() call followed up to the return of its routine, with the
\* messages its follower routine handles kept in "received".
FollowerLoggedReceive(k) ==
    \E m \in FollowerMessages(k) :
        /\ FollowerHandle(k, m)
        /\ received' = Append(received, m)

FollowerNext ==
    \/ \E w \in Windows : Call(1, w)
    \/ DoTryAcquire(1)
    \/ LatchLock(1)
    \/ Seed(1)
    \/ Leader(1)
    \/ LeaderRoutine(1)
    \/ FollowerLoggedReceive(1)
    \/ FollowerDeadline(1)

SpecFollower == Init /\ [][FollowerNext]_vars

\* ------------------------------------------------------------ window evaluations

\* One set of evaluations of the window methods: a window at coordinationBlock,
\* and the other window (a pointer, <<>> is nil) it is compared with.
NoWindowOutputs ==
    [index |-> <<>>, activePhaseEndBlock |-> <<>>, endBlock |-> <<>>,
     isAfter |-> <<>>, isAfterNil |-> <<>>, isAfterSelf |-> <<>>, isAfterBack |-> <<>>]

WindowInit ==
    /\ ElIdle
    /\ WatchIdle
    /\ CeIdle
    /\ DkgIdle
    /\ \E coordinationBlock \in BlockValues :
       \E other \in {<<>>} \cup {<<newCoordinationWindow(b)>> : b \in BlockValues} :
            fnIn = [window |-> newCoordinationWindow(coordinationBlock), other |-> other]
    /\ fnOut = NoWindowOutputs

\* window.index()
EvalIndex ==
    /\ fnOut.index = <<>>
    /\ fnOut' = [fnOut EXCEPT !.index = <<index(fnIn.window)>>]
    /\ UNCHANGED <<fnIn, elVars, watchVars, ceVars, dkgVars>>

\* window.activePhaseEndBlock() and window.endBlock()
EvalPhaseEnds ==
    /\ fnOut.endBlock = <<>>
    /\ fnOut' = [fnOut EXCEPT !.activePhaseEndBlock = <<activePhaseEndBlock(fnIn.window)>>,
                              !.endBlock = <<endBlock(fnIn.window)>>]
    /\ UNCHANGED <<fnIn, elVars, watchVars, ceVars, dkgVars>>

\* window.isAfter(nil), window.isAfter(&window), window.isAfter(other) and,
\* when other is not nil, other.isAfter(&window)
EvalIsAfter ==
    /\ fnOut.isAfter = <<>>
    /\ fnOut' = [fnOut EXCEPT
            !.isAfterNil = <<isAfter(fnIn.window, <<>>)>>,
            !.isAfterSelf = <<isAfter(fnIn.window, <<fnIn.window>>)>>,
            !.isAfter = <<isAfter(fnIn.window, fnIn.other)>>,
            !.isAfterBack = IF fnIn.other = <<>> THEN <<>>
                            ELSE <<isAfter(fnIn.other[1], <<fnIn.window>>)>>]
    /\ UNCHANGED <<fnIn, elVars, watchVars, ceVars, dkgVars>>

WindowNext ==
    \/ EvalIndex
    \/ EvalPhaseEnds
    \/ EvalIsAfter

SpecWindow == WindowInit /\ [][WindowNext]_vars

\* ------------------------------------------------------------ checklist evaluations

\* The seeds the executor derives for its wallets in the windows it runs.
ChecklistSeeds ==
    {coordinationSeed(key, GetBlockHashByNumber(safeBlockNumber(window))) :
        key \in WalletKeys, window \in {w \in Windows : BlockOnChain(safeBlockNumber(w))}}

\* Two window indexes evaluated with one seed.
ChecklistInit ==
    /\ ElIdle
    /\ WatchIdle
    /\ CeIdle
    /\ DkgIdle
    /\ \E indexA \in 0..MaxWindowIndex, indexB \in 0..MaxWindowIndex, seed \in ChecklistSeeds :
            fnIn = [indexA |-> indexA, indexB |-> indexB, seed |-> seed]
    /\ fnOut = [checklistA |-> <<>>, checklistB |-> <<>>]

EvalChecklistA ==
    /\ fnOut.checklistA = <<>>
    /\ fnOut' = [fnOut EXCEPT !.checklistA = <<actionsChecklist(fnIn.indexA, fnIn.seed)>>]
    /\ UNCHANGED <<fnIn, elVars, watchVars, ceVars, dkgVars>>

EvalChecklistB ==
    /\ fnOut.checklistB = <<>>
    /\ fnOut' = [fnOut EXCEPT !.checklistB = <<actionsChecklist(fnIn.indexB, fnIn.seed)>>]
    /\ UNCHANGED <<fnIn, elVars, watchVars, ceVars, dkgVars>>

ChecklistNext ==
    \/ EvalChecklistA
    \/ EvalChecklistB

SpecChecklist == ChecklistInit /\ [][ChecklistNext]_vars

\* ------------------------------------------------------------ dkg attempt start block

\* delayBlocks := uint64(5); if drl.attemptCounter%100 == 0 { delayBlocks = 100 }
dkgAttemptDelayBlocks == 5
dkgExtendedDelayBlocks == 100
dkgExtendedDelayPeriod == 100

delayBlocks(attemptCounter) ==
    IF attemptCounter % dkgExtendedDelayPeriod = 0
    THEN dkgExtendedDelayBlocks
    ELSE dkgAttemptDelayBlocks

\* blocksShift := uint64(drl.attemptCounter-1) * dkg.ProtocolBlocks()
blocksShift(attemptCounter, protocolBlocks) == (attemptCounter - 1) * protocolBlocks

\* startBlock: drl.initialStartBlock + blocksShift + delayBlocks
attemptStartBlock(initialStartBlock, attemptCounter, protocolBlocks) ==
    initialStartBlock + blocksShift(attemptCounter, protocolBlocks)
        + delayBlocks(attemptCounter)

\* Values of dkg.ProtocolBlocks(), the duration of one attempt in blocks.
ProtocolBlocksValues == {60, 200}

\* Blocks at which a DKG is started.
InitialStartBlocks == {1, 900}

\* The start blocks of attempt attemptCounter and of the attempt after it.
AttemptStartInit ==
    /\ ElIdle
    /\ WatchIdle
    /\ CeIdle
    /\ DkgIdle
    /\ \E initialStartBlock \in InitialStartBlocks :
       \E attemptCounter \in 1..MaxAttemptCounter :
       \E protocolBlocks \in ProtocolBlocksValues :
            fnIn = [initialStartBlock |-> initialStartBlock,
                    attemptCounter |-> attemptCounter,
                    protocolBlocks |-> protocolBlocks]
    /\ fnOut = [startBlock |-> <<>>, nextStartBlock |-> <<>>]

EvalStartBlock ==
    /\ fnOut.startBlock = <<>>
    /\ fnOut' = [fnOut EXCEPT !.startBlock =
            <<attemptStartBlock(fnIn.initialStartBlock, fnIn.attemptCounter,
                                fnIn.protocolBlocks)>>]
    /\ UNCHANGED <<fnIn, elVars, watchVars, ceVars, dkgVars>>

EvalNextStartBlock ==
    /\ fnOut.startBlock # <<>>
    /\ fnOut.nextStartBlock = <<>>
    /\ fnOut' = [fnOut EXCEPT !.nextStartBlock =
            <<attemptStartBlock(fnIn.initialStartBlock, fnIn.attemptCounter + 1,
                                fnIn.protocolBlocks)>>]
    /\ UNCHANGED <<fnIn, elVars, watchVars, ceVars, dkgVars>>

AttemptStartNext ==
    \/ EvalStartBlock
    \/ EvalNextStartBlock

SpecAttemptStart == AttemptStartInit /\ [][AttemptStartNext]_vars

\* ------------------------------------------------------------ dkg retry loop

\* newDkgRetryLoop(seed, initialStartBlock, memberIndex, selectedOperators, chainConfig)
newDkgRetryLoop(initialStartBlock, memberIndex, selectedOperators, chainConfig) ==
    [initialStartBlock    |-> initialStartBlock,
     memberIndex          |-> memberIndex,
     selectedOperators    |-> selectedOperators,
     inactiveOperatorsSet |-> {},
     chainConfig          |-> chainConfig,
     attemptCounter       |-> 0,
     randomRetryCounter   |-> 0]

\* Member indexes of the positions of selectedOperators, in order.
MemberIndexes(selectedOperators) == [i \in 1..Len(selectedOperators) |-> i]

\* Exclusion of the first seat only of every operator that is not qualified.
excludedMembersFirstSeat(selectedOperators, qualifiedOperatorsSet) ==
    SelectSeq(MemberIndexes(selectedOperators),
              LAMBDA i : /\ selectedOperators[i] \notin qualifiedOperatorsSet
                         /\ \A j \in 1..(i - 1) : selectedOperators[j] # selectedOperators[i])

\* excludedMembers: group.MemberIndex(i+1) for every position i whose operator
\* is not in qualifiedOperatorsSet.
excludedMembers(selectedOperators, qualifiedOperatorsSet) ==
    SelectSeq(MemberIndexes(selectedOperators),
              LAMBDA i : selectedOperators[i] \notin qualifiedOperatorsSet)

\* dkgAttemptParams
dkgAttemptParams(attemptIndex, startBlock, excluded) ==
    [index |-> attemptIndex, startBlock |-> startBlock, excludedMembers |-> excluded]

\* for _, memberIndex := range imErr.InactiveMembersIndexes { ... = true }
markInactive(d, inactiveMembersIndexes) ==
    [d EXCEPT !.inactiveOperatorsSet =
        @ \cup {d.selectedOperators[m] : m \in inactiveMembersIndexes}]

\* qualifiedOperators of the inactivity branch: the seats of the operators
\* not known inactive.
activeSeats(d) ==
    SelectSeq(d.selectedOperators, LAMBDA operator : operator \notin d.inactiveOperatorsSet)

\* drl.attemptCounter <= 5
inactivityAttemptsLimit == 5

\* The inactivity branch applied whether or not a random retry was made before.
excludesInactiveIgnoringRandom(d) ==
    /\ d.attemptCounter <= inactivityAttemptsLimit
    /\ d.inactiveOperatorsSet # {}
    /\ Len(activeSeats(d)) >= d.chainConfig.GroupQuorum

\* The condition under which qualifiedOperatorsSet returns the operators not
\* known inactive.
excludesInactive(d) ==
    /\ d.attemptCounter <= inactivityAttemptsLimit
    /\ d.randomRetryCounter = 0
    /\ d.inactiveOperatorsSet # {}
    /\ Len(activeSeats(d)) >= d.chainConfig.GroupQuorum

\* retry.EvaluateRetryParticipantsForKeyGeneration(selectedOperators, seed,
\* retryCount, quorum): <<>> is an error, <<set>> the operators it returned;
\* which of the operator subsets that keep the quorum of seats it draws
\* depends on the seed and the retry count.
EvaluateRetryParticipantsForKeyGeneration(selectedOperators, quorum) ==
    {<<>>} \cup
    {<<q>> : q \in {q \in SUBSET AddressSet(selectedOperators) :
                        Len(SelectSeq(selectedOperators, LAMBDA o : o \in q)) >= quorum}}

\* Signing groups selected for a DKG, and the chain configuration.
SelectedGroups == {<<1, 2, 3>>, <<1, 2, 1, 3>>}

ChainConfig == [GroupSize |-> 4, GroupQuorum |-> 2]

RetryLoopInit ==
    /\ ElIdle
    /\ WatchIdle
    /\ CeIdle
    /\ FnIdle
    /\ join = <<>>
    /\ \E selectedOperators \in SelectedGroups :
       \E memberIndex \in 1..Len(selectedOperators) :
       \E initialStartBlock \in InitialStartBlocks :
            drl = newDkgRetryLoop(initialStartBlock, memberIndex, selectedOperators,
                                  ChainConfig)
    /\ \E protocolBlocks \in ProtocolBlocksValues :
            loop = [pc |-> "loop",
                    protocolBlocks |-> protocolBlocks,
                    qualifiedOperatorsSet |-> AddressSet(drl.selectedOperators),
                    attempt |-> <<>>,        \* the params of the last dkgAttemptFn call
                    randomRetry |-> <<>>,    \* <<retryCount>> of the random retry just made
                    result |-> <<>>,         \* the returned *dkg.Result: <<>> is nil
                    err |-> "none"]          \* the returned error

\* One pass of the for loop up to the call of dkgAttemptFn.
StartAttempt ==
    /\ drl # <<>>
    /\ loop.pc = "loop"
    /\ drl.attemptCounter < MaxAttempts
    /\ LET attemptCounter == drl.attemptCounter + 1
           excluded == excludedMembers(drl.selectedOperators, loop.qualifiedOperatorsSet)
           startBlock == attemptStartBlock(drl.initialStartBlock, attemptCounter,
                                           loop.protocolBlocks)
       IN  /\ drl' = [drl EXCEPT !.attemptCounter = attemptCounter]
           /\ loop' = [loop EXCEPT !.pc = "attempt",
                                   !.randomRetry = <<>>,
                                   !.attempt = <<dkgAttemptParams(attemptCounter, startBlock,
                                                                  excluded)>>]
    /\ UNCHANGED <<join, elVars, watchVars, ceVars, fnVars>>

\* An attempt that reports success and is nevertheless followed by another.
AttemptSucceedsContinuing ==
    /\ drl # <<>>
    /\ loop.pc = "attempt"
    /\ loop' = [loop EXCEPT !.pc = "loop", !.result = <<loop.attempt[1].index>>]
    /\ UNCHANGED <<drl, join, elVars, watchVars, ceVars, fnVars>>

\* dkgAttemptFn returned (result, nil): return result, nil. The result is
\* named by the index of the attempt that produced it.
AttemptSucceeds ==
    /\ drl # <<>>
    /\ loop.pc = "attempt"
    /\ loop' = [loop EXCEPT !.pc = "returned", !.result = <<loop.attempt[1].index>>]
    /\ UNCHANGED <<drl, join, elVars, watchVars, ceVars, fnVars>>

\* dkgAttemptFn returned an error: an InactiveMembersError naming
\* inactiveMembersIndexes, or another error (no member named); then
\* qualifiedOperatorsSet(), and either the next pass or the return of its error.
AttemptFails ==
    /\ drl # <<>>
    /\ loop.pc = "attempt"
    /\ \E inactiveMembersIndexes \in SUBSET (1..Len(drl.selectedOperators)) :
         LET d == markInactive(drl, inactiveMembersIndexes)
         IN  IF excludesInactive(d)
             THEN /\ drl' = d
                  /\ loop' = [loop EXCEPT !.pc = "loop",
                                          !.qualifiedOperatorsSet = AddressSet(activeSeats(d))]
             ELSE \E qualifiedOperators \in EvaluateRetryParticipantsForKeyGeneration(
                                                d.selectedOperators, d.chainConfig.GroupQuorum) :
                    IF qualifiedOperators = <<>>
                    THEN /\ drl' = d
                         /\ loop' = [loop EXCEPT !.pc = "returned",
                                                 !.randomRetry = <<d.randomRetryCounter>>,
                                                 !.err = "randomSelection"]
                    ELSE /\ drl' = [d EXCEPT !.randomRetryCounter = @ + 1]
                         /\ loop' = [loop EXCEPT !.pc = "loop",
                                                 !.randomRetry = <<d.randomRetryCounter>>,
                                                 !.qualifiedOperatorsSet = qualifiedOperators[1]]
    /\ UNCHANGED <<join, elVars, watchVars, ceVars, fnVars>>

RetryLoopNext ==
    \/ StartAttempt
    \/ AttemptSucceeds
    \/ AttemptFails

SpecRetryLoop == RetryLoopInit /\ [][RetryLoopNext]_vars

\* ------------------------------------------------------------ joinDKGIfEligible

\* The calls of joinDKGIfEligible that return an error value.
JoinCalls ==
    {"SelectGroup", "OperatorKeyPair", "PublicKeyToAddress", "BroadcastChannelFor",
     "SetFilter", "BlockCounter"}

\* uint8(index) of a 0-based position
Uint8(n) == n % 256

\* indexes: uint8(index) of every 0-based position of the node's operator
operatorIndexes(selectedSigningGroupOperators, operatorAddress) ==
    LET positions == [i \in 1..Len(selectedSigningGroupOperators) |-> i - 1]
        own == SelectSeq(positions,
                         LAMBDA p : selectedSigningGroupOperators[p + 1] = operatorAddress)
    IN  [i \in 1..Len(own) |-> Uint8(own[i])]

\* A member index taken as the 0-based position itself.
memberIndexUnshifted(position) == Uint8(position)

\* memberIndex := index + 1 (uint8)
memberIndexOf(position) == Uint8(position + 1)

\* Groups chain.SelectGroup may return.
JoinGroups == SelectedGroups \cup {<<2, 2, 3>>}

\* chainConfig.GroupSize values
JoinGroupSizes == {3, 4}

JoinInit ==
    /\ ElIdle
    /\ WatchIdle
    /\ CeIdle
    /\ FnIdle
    /\ drl = <<>>
    /\ loop = <<>>
    /\ \E selected \in JoinGroups :
       \E operatorAddress \in Operators :
       \E groupSize \in JoinGroupSizes :
       \E failing \in SUBSET JoinCalls :
            join = [pc |-> "called",
                    selectedSigningGroupOperators |-> selected,
                    operatorAddress |-> operatorAddress,
                    chainConfig |-> [GroupSize |-> groupSize,
                                     GroupQuorum |-> ChainConfig.GroupQuorum],
                    failing |-> failing,         \* the calls that return an error
                    startBlockNumber |-> 1,
                    channelOpened |-> FALSE,     \* BroadcastChannelFor returned a channel
                    filterSet |-> FALSE,
                    spawned |-> <<>>,            \* member indexes of the goroutines started
                    loops |-> {}]                \* retry loops the goroutines have built

\* joinDKGIfEligible(seed, startBlockNumber) up to its return; the goroutines
\* it starts run afterwards.
JoinDKGIfEligible ==
    /\ join # <<>>
    /\ join.pc = "called"
    /\ LET selected == join.selectedSigningGroupOperators
           indexes  == operatorIndexes(selected, join.operatorAddress)
           nothing  == [join EXCEPT !.pc = "returned"]
       IN  join' =
             IF "SelectGroup" \in join.failing THEN nothing
             ELSE IF Len(selected) > join.chainConfig.GroupSize THEN nothing
             ELSE IF "OperatorKeyPair" \in join.failing THEN nothing
             ELSE IF "PublicKeyToAddress" \in join.failing THEN nothing
             ELSE IF Len(indexes) = 0 THEN nothing
             ELSE IF "BroadcastChannelFor" \in join.failing THEN nothing
             ELSE IF "BlockCounter" \in join.failing
                  THEN [nothing EXCEPT !.channelOpened = TRUE,
                                       !.filterSet = "SetFilter" \notin join.failing]
             ELSE [nothing EXCEPT !.channelOpened = TRUE,
                                  !.filterSet = "SetFilter" \notin join.failing,
                                  !.spawned = [i \in 1..Len(indexes) |->
                                                    memberIndexOf(indexes[i])]]
    /\ UNCHANGED <<drl, loop, elVars, watchVars, ceVars, fnVars>>

\* go func() { retryLoop := newDkgRetryLoop(...); retryLoop.start(...) }() of
\* the i-th index
RetryLoopGoroutine(i) ==
    /\ join # <<>>
    /\ join.pc = "returned"
    /\ i \in 1..Len(join.spawned)
    /\ \A d \in join.loops : d.memberIndex # join.spawned[i]
    /\ join' = [join EXCEPT !.loops = @ \cup
            {newDkgRetryLoop(join.startBlockNumber, join.spawned[i],
                             join.selectedSigningGroupOperators, join.chainConfig)}]
    /\ UNCHANGED <<drl, loop, elVars, watchVars, ceVars, fnVars>>

JoinNext ==
    \/ JoinDKGIfEligible
    \/ \E i \in 1..join.chainConfig.GroupSize : RetryLoopGoroutine(i)

SpecJoin == JoinInit /\ [][JoinNext]_vars

\* ------------------------------------------------------------ deduplicateBySender

\* Messages: SenderID() and the rest of the message (one number here).
DedupItems == [sender : 1..3, payload : 1..2]

\* deduplicateBySender keeping the last item of every sender, not the first.
RECURSIVE deduplicateKeepingLast(_, _, _, _)
deduplicateKeepingLast(list, i, senders, result) ==
    IF i > Len(list) THEN result
    ELSE IF list[i].sender \notin senders
         THEN deduplicateKeepingLast(list, i + 1, senders \cup {list[i].sender},
                                     Append(result, list[i]))
    ELSE deduplicateKeepingLast(list, i + 1, senders,
            [k \in 1..Len(result) |->
                IF result[k].sender = list[i].sender THEN list[i] ELSE result[k]])

\* The loop of deduplicateBySender from item i on: senders is the map of the
\* senders seen, result the items kept.
RECURSIVE deduplicateLoop(_, _, _, _)
deduplicateLoop(list, i, senders, result) ==
    IF i > Len(list) THEN result
    ELSE IF list[i].sender \notin senders
         THEN deduplicateLoop(list, i + 1, senders \cup {list[i].sender},
                              Append(result, list[i]))
    ELSE deduplicateLoop(list, i + 1, senders, result)

deduplicateBySender(list) == deduplicateLoop(list, 1, {}, <<>>)

DedupInit ==
    /\ ElIdle
    /\ WatchIdle
    /\ CeIdle
    /\ DkgIdle
    /\ \E list \in SeqsOf(DedupItems, 0, MaxListLen) : fnIn = [list |-> list]
    /\ fnOut = [once |-> <<>>, twice |-> <<>>]

\* deduplicateBySender(list)
EvalDeduplicate ==
    /\ fnOut.once = <<>>
    /\ fnOut' = [fnOut EXCEPT !.once = <<deduplicateBySender(fnIn.list)>>]
    /\ UNCHANGED <<fnIn, elVars, watchVars, ceVars, dkgVars>>

\* deduplicateBySender applied to the list it returned
EvalDeduplicateAgain ==
    /\ fnOut.once # <<>>
    /\ fnOut.twice = <<>>
    /\ fnOut' = [fnOut EXCEPT !.twice = <<deduplicateBySender(fnOut.once[1])>>]
    /\ UNCHANGED <<fnIn, elVars, watchVars, ceVars, dkgVars>>

DedupNext ==
    \/ EvalDeduplicate
    \/ EvalDeduplicateAgain

SpecDedup == DedupInit /\ [][DedupNext]_vars

\* ------------------------------------------------------------ properties

Returned == {k \in DOMAIN calls : calls[k].pc = "returned"}

\* C1 (as claimed): when two coordinate() calls on the executor overlap in
\* time, exactly one of them returns a result and the other returns
\* errCoordinationExecutorBusy with a nil result.
C1_ExactlyOneResult ==
    \A j \in Returned : \A k \in Returned :
        (j # k /\ {j, k} \in overlap /\ Cardinality(Called) = 2) =>
            \/ /\ calls[j].result # <<>> /\ calls[j].err = "none"
               /\ calls[k].result = <<>> /\ calls[k].err = "busy"
            \/ /\ calls[k].result # <<>> /\ calls[k].err = "none"
               /\ calls[j].result = <<>> /\ calls[j].err = "busy"

\* C1 (amended): a call returns errCoordinationExecutorBusy, with a nil result,
\* exactly when another call held the lock at its TryAcquire, and that other
\* call overlapped it and was not itself refused; a call that took the lock
\* returns a result, or a seed error with a nil result.
C1_BusyIffLockHeld ==
    \A k \in Returned :
        /\ calls[k].err = "busy" <=> calls[k].heldAtTry # 0
        /\ calls[k].err = "busy" =>
               /\ calls[k].result = <<>>
               /\ {calls[k].heldAtTry, k} \in overlap
               /\ calls[calls[k].heldAtTry].err # "busy"
        /\ calls[k].err = "none" <=> calls[k].result # <<>>
        /\ calls[k].err \in {"none", "busy", "seed"}

\* C1 witness: two overlapping calls have returned, one with a result and the
\* other refused.
C1_Witness ==
    \E j \in Returned : \E k \in Returned :
        /\ {j, k} \in overlap
        /\ calls[j].result # <<>>
        /\ calls[k].err = "busy"
        /\ calls[k].heldAtTry = j

\* C2: at most one coordinate() call of the executor is past the lock
\* acquisition and not yet returned.
C2_AtMostOneInFlight ==
    Cardinality({k \in DOMAIN calls : calls[k].pc \in Holding}) <= 1

\* C2 witness: a call was refused while another call is still in flight.
C2_Witness ==
    \E j \in DOMAIN calls : \E k \in DOMAIN calls :
        /\ calls[j].pc \in Holding
        /\ calls[k].pc = "returned"
        /\ calls[k].err = "busy"

Count(seq, x) == Cardinality({i \in DOMAIN seq : seq[i] = x})

Nondecreasing(seq) == \A i \in DOMAIN seq : \A j \in DOMAIN seq : i < j => seq[i] <= seq[j]

\* C3 (as claimed): on a monotone block stream, each delivered block that is a
\* positive multiple of 900 has exactly one window dispatched for it, and no
\* other delivered block (block 0 in particular) has any.
C3_PositiveMultiplesOnly ==
    Nondecreasing(delivered) =>
        \A i \in DOMAIN delivered :
            Count(dispatched, newCoordinationWindow(delivered[i])) =
                IF delivered[i] > 0 /\ delivered[i] % coordinationFrequencyBlocks = 0
                THEN 1 ELSE 0

\* C4: the dispatched windows are strictly increasing in coordinationBlock, so
\* no window is dispatched twice, whatever the block source delivers.
C4_StrictlyIncreasing ==
    \A i \in DOMAIN dispatched : \A j \in DOMAIN dispatched :
        i < j => dispatched[i].coordinationBlock < dispatched[j].coordinationBlock

\* C4 witness: three blocks were delivered, a multiple of the frequency twice
\* among them, and two windows were dispatched: the repeated one was ignored.
C4_Witness ==
    /\ Len(dispatched) = 2
    /\ \E i \in DOMAIN delivered : \E j \in DOMAIN delivered :
          /\ i < j
          /\ delivered[i] = delivered[j]
          /\ delivered[i] % coordinationFrequencyBlocks = 0
    /\ Len(delivered) = 3

\* C5: for one seed, two executors whose operator lists hold the same set of
\* distinct operators elect the same leader, whatever the order of the seats,
\* the number of seats of each operator, the node, and the map iteration order.
C5_LeaderDependsOnSetAndSeed ==
    (elLeaderA # 0 /\ elLeaderB # 0) => elLeaderA = elLeaderB

\* C5 witness: two elections ran on lists of different lengths and different
\* first seats, on different nodes.
C5_Witness ==
    /\ elLeaderA # 0
    /\ elLeaderB # 0
    /\ Len(elOperatorsA) # Len(elOperatorsB)
    /\ elOperatorsA[1] # elOperatorsB[1]
    /\ Cardinality(AddressSet(elOperatorsA)) >= 2
    /\ elNodeA # elNodeB

\* C6: the seed a call derives is the digest of the wallet public key hash
\* followed by the hash of block coordinationBlock - 32, and that block is the
\* only one the call asks the chain for.
C6_SeedOfSafeBlock ==
    \A k \in DOMAIN calls :
        calls[k].reads # {} =>
            LET block == calls[k].window[1].coordinationBlock
            IN  /\ calls[k].reads = {block - coordinationSafeBlockShift}
                /\ calls[k].seed # <<>> =>
                       calls[k].seed =
                           Sum256(walletPublicKeyHash(ceWalletKey)
                                  \o GetBlockHashByNumber(block - coordinationSafeBlockShift))

\* C6 witness: a call on window 900 has derived its seed.
C6_Witness ==
    \E k \in DOMAIN calls :
        /\ calls[k].seed # <<>>
        /\ calls[k].window[1].coordinationBlock = coordinationFrequencyBlocks
        /\ calls[k].reads # {}

\* C7 (as claimed): the leader field of a result coordinate() returns is the
\* operator coordinationLeader elected from the window's seed.
C7_ResultLeaderIsElected ==
    \A k \in DOMAIN calls :
        (calls[k].result # <<>> /\ calls[k].leader # 0) =>
            calls[k].result[1].leader = calls[k].leader

\* C8 (as claimed): the proposal of a result coordinate() returns is Noop
\* exactly when the routine that ran came back without a leader proposal (the
\* leader's generator produced Noop, the follower accepted no message).
C8_NoopIffNoProposal ==
    \A k \in DOMAIN calls :
        (calls[k].result # <<>> /\ calls[k].proposal # <<>>) =>
            (calls[k].result[1].proposal.actionType = "Noop"
                <=> calls[k].proposal[1].actionType = "Noop")

\* The six acceptance conditions of the follower routine, for the message m
\* received by call k.
SenderIsLeader(k, m) ==
    /\ m.senderID \in DOMAIN ceOperators
    /\ ceOperators[m.senderID] = calls[k].leader

MembershipAccepted(m) ==
    /\ m.senderID \in DOMAIN ceOperators
    /\ ceOperators[m.senderID] = m.senderOperator

BlockMatches(k, m) == m.coordinationBlock = calls[k].window[1].coordinationBlock

WalletMatches(m) == m.walletPublicKeyHash = walletPublicKeyHash(ceWalletKey)

ActionOnChecklist(k, m) ==
    \E i \in DOMAIN calls[k].checklist : calls[k].checklist[i] = m.proposal.actionType

NotOwnMessage(m) == m.senderID \notin MembersByOperator(ceOperators, ceNode)

Acceptable(k, m) ==
    /\ m.msgType = "coordination"
    /\ SenderIsLeader(k, m)
    /\ MembershipAccepted(m)
    /\ BlockMatches(k, m)
    /\ WalletMatches(m)
    /\ ActionOnChecklist(k, m)
    /\ NotOwnMessage(m)

AcceptableReceived(k) == {i \in DOMAIN received : Acceptable(k, received[i])}

FollowerDone(k) == calls[k].pc = "result" /\ calls[k].routine = "follower"

HasIdleness(faults) == \E i \in DOMAIN faults : faults[i].faultType = "LeaderIdleness"

C17_CallbacksStartInOrder ==
    \A i \in DOMAIN started : \A j \in DOMAIN started :
        i < j => dispatched[started[i]].coordinationBlock
                     < dispatched[started[j]].coordinationBlock

\* C18 (as claimed, its safety half): once the context is cancelled no
\* callback is dispatched and no callback starts.
C18_NoCallbackAfterCancel ==
    [][ctxDone => (dispatched' = dispatched /\ started' = started)]_vars

\* C19: whenever a block is offered and the watcher has not returned, the
\* watcher can take it, and dispatches its window if it is a new one, whether
\* or not the callbacks of earlier windows have started or returned.
C19_WatcherNeverBlocks ==
    (blocksChan # <<>> /\ ~watcherReturned) =>
        ENABLED (/\ WatcherReceive
                 /\ delivered' = Append(delivered, blocksChan[1])
                 /\ (/\ blocksChan[1] % coordinationFrequencyBlocks = 0
                     /\ isAfter(newCoordinationWindow(blocksChan[1]), lastWindow))
                        => dispatched' =
                               Append(dispatched, newCoordinationWindow(blocksChan[1])))

\* C19 witness: a second window was dispatched, and a later block delivered,
\* while the callback of the first window was running and had not returned.
C19_Witness ==
    /\ Len(dispatched) >= 2
    /\ 1 \in CallbackRunning
    /\ 2 \in NotStarted
    /\ delivered[Len(delivered)] % coordinationFrequencyBlocks # 0
    /\ Len(delivered) >= 3

\* A received message of another operator that passes the membership check
\* and is about this window and wallet.
ForThisWindow(k, m) ==
    /\ m.msgType = "coordination"
    /\ NotOwnMessage(m)
    /\ MembershipAccepted(m)
    /\ BlockMatches(k, m)
    /\ WalletMatches(m)

Impersonating(k, m) == ForThisWindow(k, m) /\ ~SenderIsLeader(k, m)

Mistaken(k, m) ==
    ForThisWindow(k, m) /\ SenderIsLeader(k, m) /\ ~ActionOnChecklist(k, m)

FaultsOfType(faults, faultType) ==
    SelectSeq(faults, LAMBDA f : f.faultType = faultType)

ImpersonatorsReceived(k) ==
    LET msgs == SelectSeq(received, LAMBDA m : Impersonating(k, m))
    IN  [i \in DOMAIN msgs |-> msgs[i].senderOperator]

LastReceived == received[Len(received)]

MistakesReceived(k) == SelectSeq(received, LAMBDA m : Mistaken(k, m))

Offences(k) == {i \in DOMAIN received : Impersonating(k, received[i]) \/ Mistaken(k, received[i])}

C14_DeadlineResultKeepsFaults ==
    \A k \in DOMAIN calls :
        (/\ calls[k].result # <<>>
         /\ calls[k].routine = "follower"
         /\ HasIdleness(calls[k].faults)) =>
            /\ calls[k].err = "none"
            /\ calls[k].result[1].proposal = noopProposal
            /\ calls[k].result[1].faults = calls[k].faults

\* C15: a call whose seed derivation failed has elected no leader, run no
\* routine, sent nothing and recorded no fault, and it returns the error with
\* a nil result.
C15_SeedErrorSkipsWindow ==
    \A k \in DOMAIN calls :
        calls[k].err = "seed" =>
            /\ calls[k].pc \in {"latchUnlock", "lockRelease", "returned"}
            /\ calls[k].result = <<>>
            /\ calls[k].seed = <<>>
            /\ calls[k].leader = 0
            /\ calls[k].routine = "none"
            /\ calls[k].proposal = <<>>
            /\ calls[k].faults = <<>>
            /\ calls[k].sent = <<>>

\* C15 witness: the read of block 868 failed for a call on window 900, which
\* is about to return.
C15_Witness ==
    \E k \in DOMAIN calls :
        /\ calls[k].err = "seed"
        /\ calls[k].pc = "latchUnlock"
        /\ calls[k].reads = {coordinationFrequencyBlocks - coordinationSafeBlockShift}

\* C16: a call that finds the lock taken can at once return
\* errCoordinationExecutorBusy, in a step that changes nothing of the other
\* calls: it does not wait for the call in flight.
C16_BusyWithoutWaiting ==
    \A k \in DOMAIN calls :
        (calls[k].pc = "tryAcquire" /\ \E j \in DOMAIN calls : calls[j].pc \in Holding) =>
            ENABLED (/\ DoTryAcquire(k)
                     /\ calls'[k].pc = "returned"
                     /\ calls'[k].err = "busy"
                     /\ \A j \in DOMAIN calls \ {k} : calls'[j] = calls[j])

\* C16 witness: a call was refused while the call in flight had made no step
\* since it took the lock.
C16_Witness ==
    \E j \in DOMAIN calls : \E k \in DOMAIN calls :
        /\ calls[j].pc = "latchLock"
        /\ calls[k].pc = "returned"
        /\ calls[k].err = "busy"
        /\ calls[k].heldAtTry = j

Latched == {"seed", "leader", "leaderRoutine", "followerRoutine", "result", "latchUnlock"}

\* C20: the protocol latch is locked exactly while a call is between its
\* Lock() and its deferred Unlock(), that is during seed derivation, leader
\* election, the routine and the building of the result; it is unlocked once
\* the call has returned.
C20_LatchHeldDuringRoutine ==
    /\ latch = Cardinality({k \in DOMAIN calls : calls[k].pc \in Latched})
    /\ (\A k \in DOMAIN calls : calls[k].pc \in {"notCalled", "tryAcquire", "returned"})
           => latch = 0

\* C20 witness: a first call has returned a result and a second one is in its
\* routine with the latch locked.
C20_Witness ==
    \E j \in DOMAIN calls : \E k \in DOMAIN calls :
        /\ calls[j].pc = "returned"
        /\ calls[j].result # <<>>
        /\ calls[k].pc \in {"leaderRoutine", "followerRoutine"}
        /\ latch = 1

C28_NoopHasNoValidityBlocks ==
    /\ validityBlocks(noopProposal) = <<>>
    /\ \A k \in DOMAIN calls :
           /\ calls[k].pc # "panicked"
           /\ calls[k].result # <<>> =>
                  calls[k].pc \in {"latchUnlock", "lockRelease", "returned"}
           /\ calls[k].pc = "returned" => calls[k].err \in {"none", "busy", "seed"}

\* C28 witness: a call has returned a result whose proposal is Noop.
C28_Witness ==
    \E k \in DOMAIN calls :
        /\ calls[k].pc = "returned"
        /\ calls[k].err = "none"
        /\ calls[k].result # <<>>
        /\ calls[k].result[1].proposal.actionType = "Noop"

\* C29: a call that derived its seed runs exactly one routine: the leader
\* routine if the elected operator is the node's operator, however many seats
\* it holds, and the follower routine otherwise.
C29_ExactlyOneRoutine ==
    \A k \in DOMAIN calls :
        /\ calls[k].pc = "leaderRoutine" => calls[k].leader = ceNode
        /\ calls[k].pc = "followerRoutine" => calls[k].leader # ceNode
        /\ calls[k].routine = "leader" => calls[k].leader = ceNode
        /\ calls[k].routine = "follower" => (calls[k].leader # ceNode /\ calls[k].sent = <<>>)
        /\ calls[k].pc = "result" => calls[k].routine \in {"leader", "follower"}
        /\ calls[k].routine # "none" => calls[k].seed # <<>>

\* C29 witness: the elected operator holds two seats, the node is that
\* operator, and the leader routine has run.
C29_Witness ==
    \E k \in DOMAIN calls :
        /\ calls[k].pc = "result"
        /\ calls[k].routine = "leader"
        /\ Cardinality(MembersByOperator(ceOperators, calls[k].leader)) = 2

\* C30: the lock and the latch are held only by a call in flight, so both are
\* free once every call has returned, after a result as after a seed error;
\* and a call is refused only if it was started while another was running.
C30_ReleasedOnEveryPath ==
    /\ lockCur = Cardinality({k \in DOMAIN calls : calls[k].pc \in Holding})
    /\ (\A k \in DOMAIN calls : calls[k].pc \in {"notCalled", "tryAcquire", "returned"})
           => (lockCur = 0 /\ latch = 0)
    /\ \A k \in DOMAIN calls :
           calls[k].err = "busy" => \E j \in DOMAIN calls : j # k /\ {j, k} \in overlap

\* C30 witness: a call returned a seed error, and a call started after it had
\* returned was not refused and returned a result.
C30_Witness ==
    \E j \in DOMAIN calls : \E k \in DOMAIN calls :
        /\ calls[j].pc = "returned"
        /\ calls[j].err = "seed"
        /\ calls[k].pc = "returned"
        /\ calls[k].result # <<>>
        /\ {j, k} \notin overlap
        /\ lockCur = 0


ChecklistOf(windowIndex, checklist) ==
    /\ (windowIndex = 0) => (checklist = <<>>)
    /\ (windowIndex # 0) => (Len(checklist) >= 1 /\ checklist[1] = "Redemption")
    /\ (windowIndex > 0 /\ windowIndex % 16 = 0) =>
            (checklist = <<"Redemption", "DepositSweep", "MovedFundsSweep", "MovingFunds">>)

\* C23: the checklist is empty for window index 0; for every other index it
\* begins with Redemption; for a positive multiple of 16 it is exactly
\* Redemption, DepositSweep, MovedFundsSweep, MovingFunds, whatever the seed.
C23_ChecklistShape ==
    /\ (fnIn # <<>> /\ "checklistA" \in DOMAIN fnOut /\ fnOut.checklistA # <<>>) =>
            ChecklistOf(fnIn.indexA, fnOut.checklistA[1])
    /\ (fnIn # <<>> /\ "checklistB" \in DOMAIN fnOut /\ fnOut.checklistB # <<>>) =>
            ChecklistOf(fnIn.indexB, fnOut.checklistB[1])

HeartbeatDrawn(seed) == seed[SeedPrefixLen] % 8 = 0

\* C23 witness: a full window evaluated with a seed that draws the heartbeat,
\* next to the window of index 0.
C23_Witness ==
    /\ fnIn # <<>>
    /\ "checklistA" \in DOMAIN fnOut
    /\ fnIn.indexA = 16
    /\ fnIn.indexB = 0
    /\ HeartbeatDrawn(fnIn.seed)
    /\ fnOut.checklistA = <<(<<"Redemption", "DepositSweep", "MovedFundsSweep", "MovingFunds">>)>>
    /\ fnOut.checklistB = <<(<<>>)>>

OrdinaryIndex(windowIndex) == windowIndex # 0 /\ windowIndex % 16 # 0

\* C24: for a window index that is neither 0 nor a multiple of 16 the
\* checklist is Redemption, Heartbeat when the first 8 bytes of the seed,
\* read as a number, are 0 modulo 8, and Redemption alone otherwise; two
\* such indexes evaluated with one seed get the same checklist.
C24_HeartbeatBySeedAlone ==
    (fnIn # <<>> /\ "checklistA" \in DOMAIN fnOut) =>
        /\ (fnOut.checklistA # <<>> /\ OrdinaryIndex(fnIn.indexA)) =>
                fnOut.checklistA[1] = IF HeartbeatDrawn(fnIn.seed)
                                      THEN <<"Redemption", "Heartbeat">>
                                      ELSE <<"Redemption">>
        /\ (fnOut.checklistB # <<>> /\ OrdinaryIndex(fnIn.indexB)) =>
                fnOut.checklistB[1] = IF HeartbeatDrawn(fnIn.seed)
                                      THEN <<"Redemption", "Heartbeat">>
                                      ELSE <<"Redemption">>
        /\ (fnOut.checklistA # <<>> /\ fnOut.checklistB # <<>>
                /\ OrdinaryIndex(fnIn.indexA) /\ OrdinaryIndex(fnIn.indexB)) =>
                fnOut.checklistA = fnOut.checklistB

\* C24 witness: two different ordinary indexes, one seed without the
\* heartbeat draw, both checklists Redemption alone.
C24_Witness ==
    /\ fnIn # <<>>
    /\ "checklistA" \in DOMAIN fnOut
    /\ fnIn.indexA = 1
    /\ fnIn.indexB = 17
    /\ ~HeartbeatDrawn(fnIn.seed)
    /\ fnOut.checklistA = <<(<<"Redemption">>)>>
    /\ fnOut.checklistB = <<(<<"Redemption">>)>>

PositiveMultiple(b) == b > 0 /\ \E n \in 1..(MaxBlockIndex + 1) : b = n * 900

\* C25: index() is coordinationBlock / 900 when the block is a positive
\* multiple of 900 and 0 otherwise, so it is 0 exactly for the blocks that
\* are not a positive multiple of 900.
C25_IndexOfWindow ==
    (fnIn # <<>> /\ "index" \in DOMAIN fnOut /\ fnOut.index # <<>>) =>
        LET b == fnIn.window.coordinationBlock
        IN  /\ PositiveMultiple(b) => (fnOut.index[1] * 900 = b)
            /\ ~PositiveMultiple(b) => (fnOut.index[1] = 0)
            /\ (fnOut.index[1] = 0) <=> ~PositiveMultiple(b)

\* C25 witness: the window at block 1800 has index 2.
C25_Witness ==
    /\ fnIn # <<>>
    /\ "index" \in DOMAIN fnOut
    /\ fnIn.window.coordinationBlock = 1800
    /\ fnOut.index = <<2>>

\* C26: the active phase ends at coordinationBlock + 80 and the window at
\* coordinationBlock + 100; the active phase ends strictly before the
\* window does and both ends lie after the coordination block.
C26_PhaseEnds ==
    (fnIn # <<>> /\ "endBlock" \in DOMAIN fnOut /\ fnOut.endBlock # <<>>) =>
        LET b == fnIn.window.coordinationBlock
        IN  /\ fnOut.activePhaseEndBlock = <<b + 80>>
            /\ fnOut.endBlock = <<b + 100>>
            /\ U64Less(fnOut.activePhaseEndBlock[1], fnOut.endBlock[1])
            /\ U64Less(b, fnOut.activePhaseEndBlock[1])
            /\ U64Less(b, fnOut.endBlock[1])

\* C26 witness: the window at block 900 ends its active phase at 980 and
\* ends at 1000.
C26_Witness ==
    /\ fnIn # <<>>
    /\ "endBlock" \in DOMAIN fnOut
    /\ fnIn.window.coordinationBlock = 900
    /\ fnOut.activePhaseEndBlock = <<980>>
    /\ fnOut.endBlock = <<1000>>

\* C27: isAfter(nil) is true; isAfter(other) is true exactly when the
\* window's block is strictly greater than the other's; no window is after
\* itself, and two windows are never each after the other.
C27_IsAfterStrictOrder ==
    (fnIn # <<>> /\ "isAfter" \in DOMAIN fnOut /\ fnOut.isAfter # <<>>) =>
        /\ fnOut.isAfterNil = <<TRUE>>
        /\ fnOut.isAfterSelf = <<FALSE>>
        /\ (fnIn.other = <<>>) => (fnOut.isAfter = <<TRUE>>)
        /\ (fnIn.other # <<>>) =>
            /\ fnOut.isAfter[1] <=>
                    (fnIn.window.coordinationBlock > fnIn.other[1].coordinationBlock)
            /\ ~(fnOut.isAfter[1] /\ fnOut.isAfterBack[1])

\* C27 witness: window 901 is after window 900 and 900 is not after 901.
C27_Witness ==
    /\ fnIn # <<>>
    /\ "isAfter" \in DOMAIN fnOut
    /\ fnIn.window.coordinationBlock = 901
    /\ fnIn.other = <<newCoordinationWindow(900)>>
    /\ fnOut.isAfter = <<TRUE>>
    /\ fnOut.isAfterBack = <<FALSE>>
    /\ fnOut.isAfterSelf = <<FALSE>>

\* C31: a coordinate() call refused with errCoordinationExecutorBusy changes
\* nothing: the semaphore weight and the latch keep their values, the call
\* read no block, derived no seed, ran no routine, sent nothing and returns
\* no result, and every other call is left as it was.
C31_BusyCallChangesNothing ==
    [][\A k \in DOMAIN calls :
          (calls[k].pc = "tryAcquire" /\ calls'[k].err = "busy") =>
              /\ lockCur' = lockCur
              /\ latch' = latch
              /\ calls'[k].pc = "returned"
              /\ calls'[k].reads = {}
              /\ calls'[k].seed = <<>>
              /\ calls'[k].routine = "none"
              /\ calls'[k].sent = <<>>
              /\ calls'[k].result = <<>>
              /\ \A j \in DOMAIN calls : j # k => calls'[j] = calls[j]]_vars

\* C31 witness: a call was refused while the other call holds the semaphore
\* and the latch and has read the chain.
C31_Witness ==
    \E j \in DOMAIN calls : \E k \in DOMAIN calls :
        /\ calls[k].pc = "returned"
        /\ calls[k].err = "busy"
        /\ calls[j].pc \in Holding
        /\ calls[j].reads # {}
        /\ lockCur = 1
        /\ latch = 1

\* C32: for every window the watcher dispatched, coordinationBlock - 32 is
\* computed without wrap-around: the safe block is 32 blocks before the
\* coordination block and strictly below it.
C32_SafeBlockWithoutWrap ==
    \A i \in DOMAIN dispatched :
        LET n == safeBlockNumber(dispatched[i])
        IN  /\ n >= 0
            /\ n + 32 = dispatched[i].coordinationBlock
            /\ U64Less(n, dispatched[i].coordinationBlock)

\* C33: the elected leader is one of the wallet's signingGroupOperators, for
\* every seed and list, and an election leaves both the list and the seed
\* as they were.
C33_LeaderIsGroupOperator ==
    [][/\ (elLeaderA' # 0) => (elLeaderA' \in Range(elOperatorsA'))
       /\ (elLeaderB' # 0) => (elLeaderB' \in Range(elOperatorsB'))
       /\ elOperatorsA' = elOperatorsA
       /\ elOperatorsB' = elOperatorsB
       /\ elSeed' = elSeed]_vars

\* C33 witness: a list with a duplicate seat elected a leader that is not
\* the operator of the first seat.
C33_Witness ==
    /\ elLeaderA # 0
    /\ elLeaderA \in Range(elOperatorsA)
    /\ Len(elOperatorsA) = 3
    /\ Cardinality(Range(elOperatorsA)) = 2
    /\ elLeaderA # elOperatorsA[1]

\* C34: the start block of attempt k+1 is at least the start block of
\* attempt k plus dkg.ProtocolBlocks(), for every k >= 1.
C34_AttemptsDoNotOverlap ==
    (fnIn # <<>> /\ "nextStartBlock" \in DOMAIN fnOut /\ fnOut.nextStartBlock # <<>>) =>
        fnOut.nextStartBlock[1] >= fnOut.startBlock[1] + fnIn.protocolBlocks

\* C35: in every attempt the excluded members are exactly the member indexes
\* of the seats whose operator is not in the current qualified set, in
\* ascending order, so the seats of one operator are excluded or kept
\* together; the first attempt excludes no member.
C35_ExcludedAreUnqualifiedSeats ==
    (drl # <<>> /\ loop.pc = "attempt") =>
        LET operators == drl.selectedOperators
            excluded  == loop.attempt[1].excludedMembers
        IN  /\ Range(excluded) =
                    {i \in 1..Len(operators) : operators[i] \notin loop.qualifiedOperatorsSet}
            /\ \A i \in 1..Len(excluded) : \A j \in 1..Len(excluded) :
                    i < j => excluded[i] < excluded[j]
            /\ \A i \in 1..Len(operators) : \A j \in 1..Len(operators) :
                    operators[i] = operators[j] =>
                        ((i \in Range(excluded)) <=> (j \in Range(excluded)))
            /\ (loop.attempt[1].index = 1) => (excluded = <<>>)

\* C35 witness: an attempt that excludes both seats of operator 1 and keeps
\* the seats of operators 2 and 3.
C35_Witness ==
    /\ drl # <<>>
    /\ loop.pc = "attempt"
    /\ drl.selectedOperators = <<1, 2, 1, 3>>
    /\ loop.qualifiedOperatorsSet = {2, 3}
    /\ loop.attempt[1].excludedMembers = <<1, 3>>

\* C36: after a failed attempt the known-inactive operators are excluded
\* only when the attempt counter is at most 5, no random retry was made
\* before, an operator is known inactive and the seats of the others reach
\* the quorum; otherwise a random retry is made with the current
\* randomRetryCounter, which then grows by exactly 1, or stays as it is when
\* the random selection fails. After a random retry every failed attempt is
\* followed by a random retry.
C36_InactivityThenRandomRetries ==
    [][(drl # <<>> /\ loop.pc = "attempt" /\ loop'.result = <<>>) =>
          LET operators == drl.selectedOperators
              inactive  == drl'.inactiveOperatorsSet
              remaining == {i \in 1..Len(operators) : operators[i] \notin inactive}
              byInactivity ==
                  /\ drl.attemptCounter <= 5
                  /\ drl.randomRetryCounter = 0
                  /\ inactive # {}
                  /\ Cardinality(remaining) >= drl.chainConfig.GroupQuorum
          IN  /\ byInactivity =>
                    /\ loop'.randomRetry = <<>>
                    /\ loop'.pc = "loop"
                    /\ loop'.qualifiedOperatorsSet = Range(operators) \ inactive
                    /\ drl'.randomRetryCounter = drl.randomRetryCounter
              /\ ~byInactivity =>
                    /\ loop'.randomRetry = <<drl.randomRetryCounter>>
                    /\ \/ /\ loop'.pc = "loop"
                          /\ drl'.randomRetryCounter = drl.randomRetryCounter + 1
                       \/ /\ loop'.pc = "returned"
                          /\ loop'.err # "none"
                          /\ drl'.randomRetryCounter = drl.randomRetryCounter
              /\ (drl.randomRetryCounter > 0) => (loop'.randomRetry # <<>>)]_vars

\* C36 witness: within the first five attempts, with an operator known
\* inactive and the quorum kept by the others, the second random retry was
\* made.
C36_Witness ==
    /\ drl # <<>>
    /\ loop.pc = "loop"
    /\ drl.attemptCounter <= 5
    /\ drl.inactiveOperatorsSet = {3}
    /\ drl.selectedOperators = <<1, 2, 3>>
    /\ loop.randomRetry = <<1>>
    /\ drl.randomRetryCounter = 2

\* C37: the attempts have the indexes 1, 2, 3, ... without gap or repeat;
\* start returns the result of the first attempt that succeeds and does
\* nothing afterwards; a failed attempt is followed by the next pass of the
\* loop unless qualifiedOperatorsSet fails, and then start returns that
\* error and no result.
C37_AttemptsInSequenceUntilSuccess ==
    [][drl # <<>> =>
          /\ loop.pc # "returned"
          /\ loop.result = <<>>
          /\ loop.err = "none"
          /\ (loop'.attempt # loop.attempt) =>
                /\ loop.pc = "loop"
                /\ loop'.attempt[1].index =
                        IF loop.attempt = <<>> THEN 1 ELSE loop.attempt[1].index + 1
                /\ loop'.attempt[1].index = drl'.attemptCounter
          /\ (loop.pc = "loop") => (loop'.pc = "attempt" /\ loop'.attempt # loop.attempt)
          /\ (loop'.result # <<>>) =>
                /\ loop.pc = "attempt"
                /\ loop'.result = <<loop.attempt[1].index>>
                /\ loop'.pc = "returned"
                /\ loop'.err = "none"
          /\ (loop.pc = "attempt" /\ loop'.result = <<>>) =>
                \/ loop'.pc = "loop" /\ loop'.err = "none"
                \/ loop'.pc = "returned" /\ loop'.err = "randomSelection"]_vars

\* C37 witness: two attempts failed and start returned the result of the
\* third.
C37_Witness ==
    /\ drl # <<>>
    /\ loop.pc = "returned"
    /\ loop.err = "none"
    /\ loop.result = <<3>>
    /\ drl.attemptCounter = 3

\* C38: dkgAttemptFn is never called with the executing member's own index
\* among the excluded members.
C38_OwnMemberNeverExcluded ==
    (drl # <<>> /\ loop.pc = "attempt") =>
        drl.memberIndex \notin Range(loop.attempt[1].excludedMembers)

\* Member indexes of the seats the node's operator holds in the selected group.
OwnSeats ==
    {i \in 1..Len(join.selectedSigningGroupOperators) :
        join.selectedSigningGroupOperators[i] = join.operatorAddress}

\* The node is not in the selected group, or the group is larger than the
\* configured group size.
NotEligible ==
    \/ OwnSeats = {}
    \/ Len(join.selectedSigningGroupOperators) > join.chainConfig.GroupSize

\* One retry loop per seat of the node's operator, with that seat's member index.
OneLoopPerSeat ==
    /\ Len(join.spawned) = Cardinality(OwnSeats)
    /\ Range(join.spawned) = OwnSeats
    /\ \A m \in Range(join.spawned) : m >= 1 /\ m <= join.chainConfig.GroupSize
    /\ \A d \in join.loops : d.memberIndex \in OwnSeats

\* C39: joinDKGIfEligible starts exactly one retry loop for each seat of the
\* node's operator in the selected group, with member index position + 1 in
\* 1..groupSize, and starts none and opens no channel when the node has no
\* seat or the group is larger than the group size.
C39_OneLoopPerSeat ==
    (join # <<>> /\ join.pc = "returned") =>
        IF NotEligible
        THEN join.spawned = <<>> /\ ~join.channelOpened
        ELSE OneLoopPerSeat

\* C39 as it holds: the loops are started when SelectGroup, OperatorKeyPair,
\* PublicKeyToAddress, BroadcastChannelFor and BlockCounter all succeed
\* (SetFilter may fail); when one of them fails no loop is started, and the
\* channel is opened only if the failing call is BlockCounter.
C39_OneLoopPerSeatUnlessCallFails ==
    (join # <<>> /\ join.pc = "returned") =>
        IF NotEligible
        THEN join.spawned = <<>> /\ ~join.channelOpened
        ELSE IF join.failing \subseteq {"SetFilter"}
        THEN OneLoopPerSeat /\ join.channelOpened
        ELSE /\ join.spawned = <<>>
             /\ join.loops = {}
             /\ join.channelOpened => (join.failing \ {"SetFilter"} = {"BlockCounter"})

\* C39 witness: the node's operator holds seats 1 and 3 of a group of four,
\* and both goroutines have built their retry loop.
C39_Witness ==
    /\ join # <<>>
    /\ join.pc = "returned"
    /\ join.selectedSigningGroupOperators = <<1, 2, 1, 3>>
    /\ join.operatorAddress = 1
    /\ join.spawned = <<1, 3>>
    /\ {d.memberIndex : d \in join.loops} = {1, 3}

\* Positions of the first item of every sender of the list.
FirstOfSender(list) ==
    {i \in 1..Len(list) : \A j \in 1..(i - 1) : list[j].sender # list[i].sender}

\* C40: deduplicateBySender returns the first item of every distinct sender
\* of the list, in the order of the list: no two returned items have the
\* same sender, every sender of the list has an item, and applying the
\* function to the returned list returns that list again.
C40_FirstItemOfEachSender ==
    (fnIn # <<>> /\ "once" \in DOMAIN fnOut /\ fnOut.once # <<>>) =>
        LET list   == fnIn.list
            result == fnOut.once[1]
            firsts == FirstOfSender(list)
        IN  /\ Len(result) = Cardinality(firsts)
            /\ \E at \in [1..Len(result) -> firsts] :
                    /\ \A k \in 1..Len(result) : result[k] = list[at[k]]
                    /\ \A k \in 1..Len(result) : \A l \in 1..Len(result) :
                            k < l => at[k] < at[l]
            /\ \A k \in 1..Len(result) : \A l \in 1..Len(result) :
                    k # l => result[k].sender # result[l].sender
            /\ {result[k].sender : k \in 1..Len(result)} =
                    {list[i].sender : i \in 1..Len(list)}
            /\ (fnOut.twice # <<>>) => (fnOut.twice[1] = result)

\* C40 witness: the second message of sender 1 is dropped, the messages of
\* senders 1 and 2 keep their order, and a second application changes nothing.
C40_Witness ==
    /\ fnIn # <<>>
    /\ "once" \in DOMAIN fnOut
    /\ fnIn.list = <<[sender |-> 2, payload |-> 1], [sender |-> 1, payload |-> 1],
                     [sender |-> 2, payload |-> 2], [sender |-> 1, payload |-> 2]>>
    /\ fnOut.once = <<(<<[sender |-> 2, payload |-> 1], [sender |-> 1, payload |-> 1]>>)>>
    /\ fnOut.twice = fnOut.once

====
